---- MODULE Spec2Model ----
(***************************************************************************)
(* Job state reconciliation of the Bewerbungsagent: the persisted state    *)
(* store (generated/job_state.json), the tracker mirror, one run of        *)
(* send_job_alerts (load, tracker marks, _merge_payload, _classify_jobs,   *)
(* _maybe_send_mail, save_state, write_tracker), the UI/CLI mark commands, *)
(* the run lock protocol and the write path of save_state.                 *)
(*                                                                         *)
(* Time is counted in ticks, TicksPerDay ticks to a day; timedelta.days is *)
(* the floor of the tick difference divided by TicksPerDay.                *)
(***************************************************************************)
EXTENDS Integers, FiniteSets, Sequences, TLC

\* ---------------------------------------------------------------- bounds
TicksPerDay == 2
MaxTime == 2
MaxRuns == 2
MaxUserOps == 2
MaxLockTime == 3
MaxAbsenceTime == 4
MaxThreshold == 2

\* Job UIDs of the postings that exist in the model and the source each
\* UID was built from (the source is part of the UID basis, build_job_uid).
UIDs == {"u1", "u2"}
\* The postings the user acts on through the tracker, the UI and the CLI.
UserUIDs == {"u1"}

\* ------------------------------------------------------- program constants
STATUS_NEW == "new"
STATUS_NOTIFIED == "notified"
STATUS_APPLIED == "applied"
STATUS_IGNORED == "ignored"
STATUS_CLOSED == "closed"
OPEN_STATUSES == {STATUS_NEW, STATUS_NOTIFIED}
TERMINAL_STATUSES == {STATUS_APPLIED, STATUS_IGNORED, STATUS_CLOSED}
AGGREGATOR_SOURCES == {"careerjet", "jobrapido", "jooble"}

CHECKBOX_EMPTY == "chr(0x2610)"
CHECKBOX_DONE == "chr(0x2611)"
CHECKBOX_VALUES == {CHECKBOX_EMPTY, CHECKBOX_DONE}
TRUTHY == {"1", "true", "t", "yes", "y", "ja", "j", "x", CHECKBOX_DONE}
APPLIED_ACTIONS == {"applied", "apply", "done", "sent", "bewerbung", "gesendet"}
IGNORED_ACTIONS == {"ignored", "ignore", "skip", "no", "nein"}

\* Python None for a timestamp, and a timestamp string that does not parse.
None == -1
BadTs == -2

VARIABLES
    now,            \* wall clock, in ticks
    source_of,      \* UID -> the source (portal) of the posting
    settings,       \* MailSettings read from the environment
    state_exists,   \* generated/job_state.json exists
    state_file,     \* content of generated/job_state.json: UID -> record
    seen_file,      \* legacy generated/seen_jobs.json: set of UIDs (dict entries)
    tracker_file,   \* content of the tracker file: UID -> row
    pc,             \* position of the send_job_alerts run
    stamp,          \* now_iso() taken at the start of the run
    state,          \* the run's in-memory state
    tracker_rows,   \* the tracker rows the run loaded
    migrated_from_seen,
    tracker_updates,
    seen_this_run,
    new_jobs,
    reminder_jobs,
    open_jobs,
    dispatched,     \* send_jobs + send_reminders, as given to _maybe_send_mail
    mail_sent,      \* what the sender did: "none", "not_called", "ok", "failed"
    runs,           \* number of runs started so far (bounded by MaxRuns)
    user_ops,       \* number of user commands so far (bounded by MaxUserOps)
    \* History of the passes, kept for the claims only:
    absent_runs,        \* UID -> consecutive passes whose batch lacked the UID
    open_absent_runs,   \* UID -> consecutive passes it entered open and absent
    pending,            \* UIDs of a failed send, not sent or marked since
    \* The run lock (generated/mail_list.lock) and the invocations racing for it:
    lock_file,      \* NoFile, or [owner, started_at] (started_at None: still empty)
    inv_pc,         \* invocation -> its position
    acquired,       \* invocation -> _acquire_run_lock returned True
    lock_clock,     \* wall clock of the lock protocol, in minutes
    ttl_min,        \* RUN_LOCK_TTL_MIN
    \* The write path of save_state:
    disk,           \* text of generated/job_state.json, as a sequence of tokens
    save_pc,        \* position of the save_state call
    save_old,       \* the mapping load_state returned before the save
    save_new,       \* the mapping being saved
    reloaded,       \* what load_state returned after the crash
    \* One call of a function of the program on its own:
    call,           \* the arguments of the call
    result          \* Pending, then Returned(value) or Raised(error)

runvars == <<pc, stamp, state, tracker_rows, migrated_from_seen,
             tracker_updates, seen_this_run, new_jobs, reminder_jobs,
             open_jobs, dispatched, mail_sent>>

histvars == <<absent_runs, open_absent_runs, pending>>

lockvars == <<lock_file, inv_pc, acquired, lock_clock, ttl_min>>

savevars == <<disk, save_pc, save_old, save_new, reloaded>>

storevars == <<now, source_of, settings, state_exists, state_file, seen_file,
               tracker_file, runvars, runs, user_ops, histvars>>

callvars == <<call, result>>

vars == <<storevars, lockvars, savevars, callvars>>

\* The empty dict.
EmptyMap == [u \in {} |-> 0]

\* The outcome of a call: not yet back, a return value, or an exception.
Pending == [outcome |-> "pending"]
Returned(value) == [outcome |-> "returned", value |-> value]
Raised(error) == [outcome |-> "raised", error |-> error]

\* ------------------------------------------------------------ job_state.py
parse_ts(value) == IF value = None \/ value = BadTs THEN None ELSE value

\* timedelta.days of (later - earlier)
days(later, earlier) == (later - earlier) \div TicksPerDay

\* should_send_reminder with > in place of >= in the comparison of the days.
should_send_reminder_after_window(last_sent_at, now_dt, reminder_days, daily_reminders) ==
    IF daily_reminders THEN TRUE
    ELSE IF last_sent_at = None THEN TRUE
    ELSE IF reminder_days <= 0 THEN TRUE
    ELSE IF parse_ts(last_sent_at) = None THEN TRUE
    ELSE days(now_dt, parse_ts(last_sent_at)) > reminder_days

should_send_reminder(last_sent_at, now_dt, reminder_days, daily_reminders) ==
    IF daily_reminders THEN TRUE
    ELSE IF last_sent_at = None THEN TRUE
    ELSE IF reminder_days <= 0 THEN TRUE
    ELSE IF parse_ts(last_sent_at) = None THEN TRUE
    ELSE days(now_dt, parse_ts(last_sent_at)) >= reminder_days

_empty_state_record(t) ==
    [status |-> STATUS_NOTIFIED, first_seen_at |-> t, last_seen_at |-> t,
     last_sent_at |-> None, missing_runs |-> 0]

_migrate_seen_jobs(seen, t) ==
    [u \in seen |-> [_empty_state_record(t) EXCEPT
                        !.last_sent_at = t, !.status = STATUS_NOTIFIED]]

load_state(t) ==
    IF state_exists THEN state_file
    ELSE IF seen_file # {} THEN _migrate_seen_jobs(seen_file, t)
    ELSE EmptyMap

\* ------------------------------------------- job_state.py: the job UID
\* A text is a sequence of tokens (pieces of the string); "" is << >>.  A
\* Python value is a str with its text, or a value of another type: a
\* number (truthy, hashable), a non-empty list (truthy, unhashable) or None.
PyStr(text) == [py |-> "str", s |-> text]
PyInt == [py |-> "int", s |-> <<"7">>]
PyList == [py |-> "list", s |-> <<"[1]">>]
PyNone == [py |-> "none", s |-> << >>]
Truthy(value) == value.py \in {"int", "list"} \/ (value.py = "str" /\ value.s # << >>)
\* value or ""
OrEmpty(value) == IF Truthy(value) THEN value ELSE PyStr(<< >>)

\* str.strip() on a text: the blanks at both ends go.
RECURSIVE lstrip_text(_)
lstrip_text(text) ==
    IF text # << >> /\ Head(text) = " " THEN lstrip_text(Tail(text)) ELSE text
RECURSIVE rstrip_text(_)
rstrip_text(text) ==
    IF text # << >> /\ text[Len(text)] = " "
    THEN rstrip_text(SubSeq(text, 1, Len(text) - 1)) ELSE text
strip_text(text) == rstrip_text(lstrip_text(text))

\* str.lower() on the tokens of a URL.
UrlLowerTable ==
    [t \in {"HTTPS", "Example.com", "/Job"} |->
        IF t = "HTTPS" THEN "https" ELSE IF t = "Example.com" THEN "example.com"
        ELSE "/job"]
lower_text(text) ==
    [i \in 1..Len(text) |->
        IF text[i] \in DOMAIN UrlLowerTable THEN UrlLowerTable[text[i]] ELSE text[i]]

\* _normalize_text on the texts of the model: lower case, diacritics and
\* punctuation removed, blanks collapsed and stripped.
NormalizeTable ==
    [t \in {"Senior Dev", "senior  dev!", "Müller AG", "muller ag", " ", "!"} |->
        IF t \in {"Senior Dev", "senior  dev!"} THEN "senior dev"
        ELSE IF t \in {"Müller AG", "muller ag"} THEN "muller ag"
        ELSE ""]
_normalize_text(text) ==
    SelectSeq([i \in 1..Len(text) |->
                  IF text[i] \in DOMAIN NormalizeTable THEN NormalizeTable[text[i]]
                  ELSE text[i]],
              LAMBDA t : t # "")

\* urlparse: scheme "://" netloc, then the path pieces ("/x", and "/" for a
\* slash that ends the path), "?query" and "#fragment".
PathTokens == {"/", "/job", "/Job", "/123"}
QueryTokens == {"?utm=x"}
FragmentTokens == {"#frag"}
urlparse(raw) ==
    LET has_scheme == Len(raw) >= 2 /\ raw[2] = "://"
        rest == IF has_scheme THEN SubSeq(raw, 3, Len(raw)) ELSE raw
        has_netloc == /\ has_scheme /\ rest # << >>
                      /\ Head(rest) \notin PathTokens \cup QueryTokens \cup FragmentTokens
        after == IF has_netloc THEN Tail(rest) ELSE rest IN
    [scheme |-> IF has_scheme THEN lower_text(<<raw[1]>>) ELSE << >>,
     netloc |-> IF has_netloc THEN <<Head(rest)>> ELSE << >>,
     path |-> SelectSeq(after, LAMBDA t : t \in PathTokens),
     query |-> SelectSeq(after, LAMBDA t : t \in QueryTokens),
     fragment |-> SelectSeq(after, LAMBDA t : t \in FragmentTokens)]

canonicalize_url(url) ==
    LET raw == strip_text(url)
        parsed == urlparse(raw)
        path == IF parsed.path # << >> /\ parsed.path[Len(parsed.path)] = "/"
                   /\ parsed.path # <<"/">>
                THEN SubSeq(parsed.path, 1, Len(parsed.path) - 1)
                ELSE parsed.path IN
    IF url = << >> THEN << >>
    ELSE IF parsed.scheme = << >> \/ parsed.netloc = << >> THEN raw
    ELSE lower_text(parsed.scheme) \o <<"://">> \o lower_text(parsed.netloc) \o path

\* sha256(base.encode("utf-8")).hexdigest()[:16]: one digest per base.
sha256_16(base) == <<"sha256[:16]">> \o base

\* build_job_uid whose fallback basis leaves the source out.
build_job_uid_fallback_without_source(job) ==
    LET link == strip_text(OrEmpty(job.link).s)
        canonical_url == canonicalize_url(link) IN
    Returned([job_uid |-> sha256_16(<<"fallback", "|">>
                             \o _normalize_text(OrEmpty(job.title).s) \o <<"|">>
                             \o _normalize_text(OrEmpty(job.company).s) \o <<"|">>
                             \o _normalize_text(OrEmpty(job.location).s) \o <<"|">>
                             \o _normalize_text(link)),
              canonical_url |-> canonical_url])

\* build_job_uid(job) on a dict with the keys source, link, external_id, title,
\* company and location (the alias keys portal, url, job_id, ... are read in
\* the same or-chains).  A .strip() or .lower() on a value that is not a str
\* raises AttributeError.
build_job_uid(job) ==
    LET source0 == OrEmpty(job.source)
        source1 == strip_text(source0.s)
        source == IF source1 = << >> THEN <<"unknown">> ELSE source1
        link0 == OrEmpty(job.link)
        link == strip_text(link0.s)
        canonical_url == canonicalize_url(link)
        external0 == OrEmpty(job.external_id)
        external_id == strip_text(external0.s)
        title0 == OrEmpty(job.title)
        company0 == OrEmpty(job.company)
        location0 == OrEmpty(job.location)
        uid(base) == Returned([job_uid |-> sha256_16(base),
                               canonical_url |-> canonical_url]) IN
    IF source0.py # "str" \/ link0.py # "str" THEN Raised("AttributeError")
    ELSE IF canonical_url # << >>
    THEN uid(<<"url", "|">> \o source \o <<"|">> \o canonical_url)
    ELSE IF external0.py # "str" THEN Raised("AttributeError")
    ELSE IF external_id # << >>
    THEN uid(<<"id", "|">> \o source \o <<"|">> \o external_id)
    ELSE IF title0.py # "str" \/ company0.py # "str" \/ location0.py # "str"
    THEN Raised("AttributeError")
    ELSE uid(<<"fallback", "|">> \o source \o <<"|">> \o _normalize_text(title0.s)
             \o <<"|">> \o _normalize_text(company0.s) \o <<"|">>
             \o _normalize_text(location0.s) \o <<"|">> \o _normalize_text(link))

\* ---------------------------------------------------------- job_tracker.py
\* str.strip() and str.lower() on the cell texts of the model; every other
\* text of the model has no outer blanks and no capitals.
StripTable == [v \in {" ", " ignore ", " x "} |->
                 IF v = " " THEN "" ELSE IF v = " ignore " THEN "ignore" ELSE "x"]
LowerTable == [v \in {"Ignore", "APPLIED", "X", "Call back"} |->
                 IF v = "Ignore" THEN "ignore" ELSE IF v = "APPLIED" THEN "applied"
                 ELSE IF v = "X" THEN "x" ELSE "call back"]
strip(value) == IF value \in DOMAIN StripTable THEN StripTable[value] ELSE value
lower(value) == IF value \in DOMAIN LowerTable THEN LowerTable[value] ELSE value

_clean(value) == strip(value)

_normalize_erledigt(value) ==
    LET raw == _clean(value) IN
    IF raw = "" THEN CHECKBOX_EMPTY
    ELSE IF raw \in CHECKBOX_VALUES THEN raw
    ELSE IF lower(raw) \in TRUTHY THEN CHECKBOX_DONE
    ELSE IF lower(raw) \in {"0", "false", "no", "nein"} THEN CHECKBOX_EMPTY
    ELSE raw

\* _load_tracker_xlsx of the default generated/job_tracker.xlsx: every cell is
\* read as str(val).strip().
load_tracker ==
    [u \in DOMAIN tracker_file |->
        [col \in DOMAIN tracker_file[u] |-> strip(tracker_file[u][col])]]

\* The status a tracker row asks for ("" when it asks for none).
desired_status(row) ==
    LET action == lower(_clean(row.aktion))
        done == _normalize_erledigt(row.erledigt) IN
    IF action \in APPLIED_ACTIONS THEN STATUS_APPLIED
    ELSE IF action \in IGNORED_ACTIONS THEN STATUS_IGNORED
    ELSE IF done = CHECKBOX_DONE THEN STATUS_APPLIED
    ELSE ""

\* The UIDs apply_tracker_marks updates.
tracker_marked(st, rows) ==
    {u \in DOMAIN rows : /\ u \in DOMAIN st
                         /\ desired_status(rows[u]) # ""
                         /\ st[u].status # desired_status(rows[u])}

\* record["applied_at"] = stamp, or record.pop("applied_at", None).  None is
\* the missing key.  Only the tracker's applied_at column shows the field,
\* so the stores of the runs and commands leave it out of their records.
set_applied_at(record, desired, stmp) ==
    IF "applied_at" \in DOMAIN record
    THEN [record EXCEPT !.applied_at = IF desired = STATUS_APPLIED THEN stmp ELSE None]
    ELSE record

\* apply_tracker_marks that stamps applied_at on every row asking for applied.
apply_tracker_marks_restamping(st, rows, stmp) ==
    [u \in DOMAIN st |->
        IF u \in DOMAIN rows /\ desired_status(rows[u]) # ""
        THEN set_applied_at([st[u] EXCEPT !.status = desired_status(rows[u])],
                            desired_status(rows[u]), stmp)
        ELSE st[u]]

apply_tracker_marks(st, rows, stmp) ==
    [u \in DOMAIN st |->
        IF u \in tracker_marked(st, rows)
        THEN set_applied_at([st[u] EXCEPT !.status = desired_status(rows[u])],
                            desired_status(rows[u]), stmp)
        ELSE st[u]]

build_tracker_rows(st, existing_rows, include_closed) ==
    LET kept == {u \in DOMAIN st : ~(st[u].status = STATUS_CLOSED /\ ~include_closed)}
        manual(u, col, default) ==
            IF u \in DOMAIN existing_rows /\ _clean(existing_rows[u][col]) # ""
            THEN existing_rows[u][col] ELSE default
        row(u) ==
            LET erl == IF u \in DOMAIN existing_rows /\ _clean(existing_rows[u].erledigt) # ""
                       THEN _normalize_erledigt(existing_rows[u].erledigt)
                       ELSE CHECKBOX_EMPTY
                akt == manual(u, "aktion", "")
                notes == manual(u, "notes", "") IN
            IF st[u].status \in {STATUS_APPLIED, STATUS_IGNORED}
            THEN [erledigt |-> CHECKBOX_DONE,
                  aktion |-> IF akt # "" THEN akt
                             ELSE IF st[u].status = STATUS_APPLIED THEN "applied"
                             ELSE "ignored",
                  notes |-> notes]
            ELSE [erledigt |-> erl, aktion |-> akt, notes |-> notes]
    IN [u \in kept |-> row(u)]

write_tracker(st, existing_rows) == build_tracker_rows(st, existing_rows, FALSE)

\* ------------------------------------------------- tools/commands/mail_list.py
\* close_aggregator_records without the test of the source.
close_aggregator_records_any_source(st) ==
    [u \in DOMAIN st |->
        IF st[u].status \notin TERMINAL_STATUSES
        THEN [st[u] EXCEPT !.status = STATUS_CLOSED]
        ELSE st[u]]

close_aggregator_records(st) ==
    [u \in DOMAIN st |->
        IF source_of[u] \in AGGREGATOR_SOURCES /\ st[u].status \notin TERMINAL_STATUSES
        THEN [st[u] EXCEPT !.status = STATUS_CLOSED]
        ELSE st[u]]

closed_aggregators(st) ==
    {u \in DOMAIN st : source_of[u] \in AGGREGATOR_SOURCES
                       /\ st[u].status \notin TERMINAL_STATUSES}

\* Lines 172-190: the record of a UID seen for the first time.
merge_new_record(stmp) ==
    [status |-> STATUS_NEW, first_seen_at |-> stmp, last_seen_at |-> stmp,
     last_sent_at |-> None, missing_runs |-> 0]

\* merge_seen_record without the reset of missing_runs.
merge_seen_record_keeping_count(record, stmp) ==
    LET status0 == IF record.status = "" THEN STATUS_NEW ELSE record.status
        status1 == IF status0 = STATUS_CLOSED
                   THEN (IF record.last_sent_at # None THEN STATUS_NOTIFIED ELSE STATUS_NEW)
                   ELSE status0 IN
    [record EXCEPT !.last_seen_at = stmp,
                   !.status = IF status1 \notin {STATUS_APPLIED, STATUS_IGNORED}
                              THEN status1 ELSE record.status]

\* merge_seen_record that stamps first_seen_at like a new record's.
merge_seen_record_first_seen_now(record, stmp) ==
    LET status0 == IF record.status = "" THEN STATUS_NEW ELSE record.status
        status1 == IF status0 = STATUS_CLOSED
                   THEN (IF record.last_sent_at # None THEN STATUS_NOTIFIED ELSE STATUS_NEW)
                   ELSE status0 IN
    [record EXCEPT !.first_seen_at = stmp,
                   !.last_seen_at = stmp,
                   !.missing_runs = 0,
                   !.status = IF status1 \notin {STATUS_APPLIED, STATUS_IGNORED}
                              THEN status1 ELSE record.status]

\* Lines 194-220: a record whose UID is in the fresh batch.
merge_seen_record(record, stmp) ==
    LET status0 == IF record.status = "" THEN STATUS_NEW ELSE record.status
        status1 == IF status0 = STATUS_CLOSED
                   THEN (IF record.last_sent_at # None THEN STATUS_NOTIFIED ELSE STATUS_NEW)
                   ELSE status0 IN
    [record EXCEPT !.last_seen_at = stmp,
                   !.missing_runs = 0,
                   !.status = IF status1 \notin {STATUS_APPLIED, STATUS_IGNORED}
                              THEN status1 ELSE record.status]

\* merge_missing_record without the guard for applied and ignored records.
merge_missing_record_sticky_dropped(record, now_dt, close_missing_runs, close_not_seen_days) ==
    IF record.status = STATUS_CLOSED THEN record
    ELSE
      LET missing == record.missing_runs + 1
          last_seen == parse_ts(record.last_seen_at)
          days_missing == IF last_seen # None THEN days(now_dt, last_seen) ELSE 0 IN
      [record EXCEPT !.missing_runs = missing,
                     !.status = IF \/ (close_missing_runs > 0 /\ missing >= close_missing_runs)
                                   \/ (close_not_seen_days > 0 /\ days_missing >= close_not_seen_days)
                                THEN STATUS_CLOSED ELSE record.status]

\* merge_missing_record closing one pass late (> instead of >=).
merge_missing_record_late_close(record, now_dt, close_missing_runs, close_not_seen_days) ==
    IF record.status \in {STATUS_APPLIED, STATUS_IGNORED, STATUS_CLOSED} THEN record
    ELSE
      LET missing == record.missing_runs + 1
          last_seen == parse_ts(record.last_seen_at)
          days_missing == IF last_seen # None THEN days(now_dt, last_seen) ELSE 0 IN
      [record EXCEPT !.missing_runs = missing,
                     !.status = IF \/ (close_missing_runs > 0 /\ missing > close_missing_runs)
                                   \/ (close_not_seen_days > 0 /\ days_missing >= close_not_seen_days)
                                THEN STATUS_CLOSED ELSE record.status]

\* merge_missing_record closing only when both thresholds are met.
merge_missing_record_both_thresholds(record, now_dt, close_missing_runs, close_not_seen_days) ==
    IF record.status \in {STATUS_APPLIED, STATUS_IGNORED, STATUS_CLOSED} THEN record
    ELSE
      LET missing == record.missing_runs + 1
          last_seen == parse_ts(record.last_seen_at)
          days_missing == IF last_seen # None THEN days(now_dt, last_seen) ELSE 0 IN
      [record EXCEPT !.missing_runs = missing,
                     !.status = IF /\ (close_missing_runs > 0 /\ missing >= close_missing_runs)
                                   /\ (close_not_seen_days > 0 /\ days_missing >= close_not_seen_days)
                                THEN STATUS_CLOSED ELSE record.status]

\* merge_missing_record closing by the days criterion only.
merge_missing_record_days_only(record, now_dt, close_missing_runs, close_not_seen_days) ==
    IF record.status \in {STATUS_APPLIED, STATUS_IGNORED, STATUS_CLOSED} THEN record
    ELSE
      LET missing == record.missing_runs + 1
          last_seen == parse_ts(record.last_seen_at)
          days_missing == IF last_seen # None THEN days(now_dt, last_seen) ELSE 0 IN
      [record EXCEPT !.missing_runs = missing,
                     !.status = IF close_not_seen_days > 0 /\ days_missing >= close_not_seen_days
                                THEN STATUS_CLOSED ELSE record.status]

\* Lines 223-239: a record whose UID is not in the fresh batch.
merge_missing_record(record, now_dt, close_missing_runs, close_not_seen_days) ==
    IF record.status \in {STATUS_APPLIED, STATUS_IGNORED, STATUS_CLOSED} THEN record
    ELSE
      LET missing == record.missing_runs + 1
          last_seen == parse_ts(record.last_seen_at)
          days_missing == IF last_seen # None THEN days(now_dt, last_seen) ELSE 0 IN
      [record EXCEPT !.missing_runs = missing,
                     !.status = IF \/ (close_missing_runs > 0 /\ missing >= close_missing_runs)
                                   \/ (close_not_seen_days > 0 /\ days_missing >= close_not_seen_days)
                                THEN STATUS_CLOSED ELSE record.status]

\* _merge_payload dropping the closed records that are not in the batch.
_merge_payload_pruning(payload, st, stmp, now_dt, close_missing_runs, close_not_seen_days) ==
    [u \in {k \in DOMAIN st : k \in payload \/ st[k].status # STATUS_CLOSED} \cup payload |->
        IF u \in payload
        THEN (IF u \notin DOMAIN st THEN merge_new_record(stmp)
              ELSE merge_seen_record(st[u], stmp))
        ELSE merge_missing_record(st[u], now_dt, close_missing_runs, close_not_seen_days)]

\* payload: the set of UIDs build_job_uid gives the rows of the batch.
_merge_payload(payload, st, stmp, now_dt, close_missing_runs, close_not_seen_days) ==
    [u \in (DOMAIN st) \cup payload |->
        IF u \in payload
        THEN (IF u \notin DOMAIN st THEN merge_new_record(stmp)
              ELSE merge_seen_record(st[u], stmp))
        ELSE merge_missing_record(st[u], now_dt, close_missing_runs, close_not_seen_days)]

\* _classify_jobs taking a record for new only in the pass that created it.
classify_new_first_sight(st, seen) ==
    {u \in seen : /\ u \in DOMAIN st
                  /\ st[u].status \notin TERMINAL_STATUSES
                  /\ st[u].status = STATUS_NEW
                  /\ st[u].first_seen_at = st[u].last_seen_at}

classify_new(st, seen) ==
    {u \in seen : /\ u \in DOMAIN st
                  /\ st[u].status \notin TERMINAL_STATUSES
                  /\ st[u].status = STATUS_NEW}

classify_reminder(st, seen, now_dt, reminder_days, daily_reminders) ==
    {u \in seen : /\ u \in DOMAIN st
                  /\ st[u].status \notin TERMINAL_STATUSES
                  /\ st[u].status \in OPEN_STATUSES
                  /\ should_send_reminder(st[u].last_sent_at, now_dt,
                                          reminder_days, daily_reminders)
                  /\ u \notin classify_new(st, seen)}

\* _classify_jobs whose Open list holds the notified records only.
classify_open_notified_only(st, seen) ==
    {u \in seen : /\ u \in DOMAIN st
                  /\ st[u].status \notin TERMINAL_STATUSES
                  /\ st[u].status = STATUS_NOTIFIED}

classify_open(st, seen) ==
    {u \in seen : /\ u \in DOMAIN st
                  /\ st[u].status \notin TERMINAL_STATUSES
                  /\ st[u].status \in OPEN_STATUSES}

\* The sender is called only for a non-empty dispatch outside dry-run mode.
sender_called(a, send_jobs, send_reminders) ==
    (send_jobs \cup send_reminders) # {} /\ ~a.dry_run

\* _maybe_send_mail marking the records whatever the sender returned.
_maybe_send_mail_ignoring_result(st, a, send_jobs, send_reminders, stmp, ok) ==
    IF send_jobs = {} /\ send_reminders = {} THEN st
    ELSE IF a.dry_run THEN st
    ELSE [u \in DOMAIN st |->
            IF u \in send_jobs \cup send_reminders
            THEN [st[u] EXCEPT !.status = STATUS_NOTIFIED, !.last_sent_at = stmp]
            ELSE st[u]]

\* _maybe_send_mail stamping last_sent_at before it knows the sender's result.
_maybe_send_mail_stamping_failure(st, a, send_jobs, send_reminders, stmp, ok) ==
    IF send_jobs = {} /\ send_reminders = {} THEN st
    ELSE IF a.dry_run THEN st
    ELSE [u \in DOMAIN st |->
            IF u \in send_jobs \cup send_reminders
            THEN [st[u] EXCEPT !.status = IF ok THEN STATUS_NOTIFIED ELSE st[u].status,
                               !.last_sent_at = stmp]
            ELSE st[u]]

\* ok: what email_automation.send_job_alert returned, when it was called.
_maybe_send_mail(st, a, send_jobs, send_reminders, stmp, ok) ==
    IF send_jobs = {} /\ send_reminders = {} THEN st
    ELSE IF a.dry_run THEN st
    ELSE IF ~ok THEN st
    ELSE [u \in DOMAIN st |->
            IF u \in send_jobs \cup send_reminders
            THEN [st[u] EXCEPT !.status = STATUS_NOTIFIED, !.last_sent_at = stmp]
            ELSE st[u]]

\* --------------------------------------------------------- tracker_ui.py
\* _status_for_open that reopens every record as new.
_status_for_open_always_new(record) == STATUS_NEW

_status_for_open(record) ==
    IF record.last_sent_at # None THEN STATUS_NOTIFIED ELSE STATUS_NEW

\* ------------------------------------------------------------------ inputs
\* args of a run: --dry-run and --send-open.
ArgsSet == [dry_run : BOOLEAN, send_open : BOOLEAN]

\* MailSettings (REMINDER_DAYS, CLOSE_MISSING_RUNS, CLOSE_NOT_SEEN_DAYS,
\* REMINDER_DAILY), the same for all runs of a behaviour.
SettingsSet ==
    {[reminder_days |-> 1, close_missing_runs |-> 2, close_not_seen_days |-> 1,
      daily_reminders |-> FALSE],
     [reminder_days |-> 0, close_missing_runs |-> 1, close_not_seen_days |-> 0,
      daily_reminders |-> FALSE],
     [reminder_days |-> 1, close_missing_runs |-> 0, close_not_seen_days |-> 0,
      daily_reminders |-> TRUE]}

\* u1 comes from a portal or from an aggregator, u2 from a portal.
SourceChoices == {[u \in UIDs |-> IF u = "u1" THEN src ELSE "jobs.ch"] :
                    src \in {"jobs.ch", "jooble"}}

LegacySeenFiles == {{}, {"u1"}}
MarkRequests == {"open", STATUS_NEW, STATUS_NOTIFIED, STATUS_APPLIED,
                 STATUS_IGNORED, STATUS_CLOSED}
AktionInputs == {"", "applied", "ignore"}

\* The clock read by an operation: not before the last reading.
ClockReadings == now..MaxTime

\* The invocations racing for the run lock.
Procs == {"p1", "p2"}

\* The lock file does not exist.
NoFile == [owner |-> "", started_at |-> None, payload |-> None]

\* The lock file a run killed at minute 0 left behind.
LeftoverLock == [owner |-> "p0", started_at |-> 0, payload |-> 0]

\* No invocation has started and there is no lock file.
LockIdle ==
    /\ inv_pc = [p \in Procs |-> "start"]
    /\ acquired = [p \in Procs |-> FALSE]
    /\ lock_clock = 0

\* No save_state call is under way and the state file is empty.
SaveIdle ==
    /\ disk = << >>
    /\ save_pc = "idle"
    /\ save_old = EmptyMap
    /\ save_new = EmptyMap
    /\ reloaded = EmptyMap

\* No function is called on its own.
NoCall == [fn |-> "none"]
CallIdle ==
    /\ call = NoCall
    /\ result = Pending

\* ------------------------------------------------------------------- Init
RunIdle ==
    /\ pc = "idle"
    /\ stamp = None
    /\ state = EmptyMap
    /\ tracker_rows = EmptyMap
    /\ migrated_from_seen = FALSE
    /\ tracker_updates = 0
    /\ seen_this_run = {}
    /\ new_jobs = {}
    /\ reminder_jobs = {}
    /\ open_jobs = {}
    /\ dispatched = {}
    /\ mail_sent = "none"

InitStore ==
    /\ now = 0
    /\ source_of \in SourceChoices
    /\ settings \in SettingsSet
    /\ state_exists = FALSE
    /\ state_file = EmptyMap
    /\ seen_file \in LegacySeenFiles
    /\ tracker_file = EmptyMap
    /\ runs = 0
    /\ user_ops = 0
    /\ absent_runs = [u \in UIDs |-> 0]
    /\ open_absent_runs = [u \in UIDs |-> 0]
    /\ pending = {}
    /\ RunIdle

Init ==
    /\ InitStore
    /\ LockIdle
    /\ lock_file = NoFile
    /\ ttl_min = 1
    /\ SaveIdle
    /\ CallIdle

\* ------------------------------------------------- send_job_alerts, in steps
\* mail_list.py 400-422: stamp, load_state, load_tracker, apply_tracker_marks,
\* close_aggregator_records.
SendJobAlerts_Load ==
    /\ pc = "idle"
    /\ runs < MaxRuns
    /\ runs' = runs + 1
    /\ \E t \in ClockReadings :
         /\ now' = t
         /\ stamp' = t
         /\ LET loaded == load_state(t)
                rows == load_tracker
                marked == apply_tracker_marks(loaded, rows, t) IN
            /\ tracker_rows' = rows
            /\ tracker_updates' = Cardinality(tracker_marked(loaded, rows))
            /\ state' = close_aggregator_records(marked)
    /\ migrated_from_seen' = (~state_exists /\ seen_file # {})
    /\ pc' = "collect"
    /\ UNCHANGED <<lockvars, savevars, callvars, source_of, settings, state_exists, state_file, seen_file,
                   tracker_file, seen_this_run, new_jobs, reminder_jobs,
                   open_jobs, dispatched, mail_sent, user_ops, histvars>>

\* The run without its no-rows branch: the empty batch goes through
\* _merge_payload and the state is saved.
SendJobAlerts_NoRows_merging ==
    /\ pc = "collect"
    /\ state_file' = _merge_payload({}, state, stamp, stamp,
                                    settings.close_missing_runs,
                                    settings.close_not_seen_days)
    /\ state_exists' = TRUE
    /\ tracker_file' = write_tracker(state_file', tracker_rows)
    /\ pc' = "idle"
    /\ stamp' = None
    /\ state' = EmptyMap
    /\ tracker_rows' = EmptyMap
    /\ migrated_from_seen' = FALSE
    /\ tracker_updates' = 0
    /\ UNCHANGED <<lockvars, savevars, callvars, now, source_of, settings, seen_file, seen_this_run, new_jobs,
                   reminder_jobs, open_jobs, dispatched, mail_sent, runs,
                   user_ops, histvars>>

\* mail_list.py 424-458: collect_jobs returned no rows.
SendJobAlerts_NoRows ==
    /\ pc = "collect"
    /\ IF migrated_from_seen \/ tracker_updates # 0
       THEN state_file' = state /\ state_exists' = TRUE
       ELSE UNCHANGED <<state_file, state_exists>>
    /\ tracker_file' = write_tracker(state, tracker_rows)
    /\ pc' = "idle"
    /\ stamp' = None
    /\ state' = EmptyMap
    /\ tracker_rows' = EmptyMap
    /\ migrated_from_seen' = FALSE
    /\ tracker_updates' = 0
    /\ UNCHANGED <<lockvars, savevars, callvars, now, source_of, settings, seen_file, seen_this_run, new_jobs,
                   reminder_jobs, open_jobs, dispatched, mail_sent, runs,
                   user_ops, histvars>>

\* mail_list.py 460-480: _merge_payload and _classify_jobs on a non-empty batch.
SendJobAlerts_Merge ==
    /\ pc = "collect"
    /\ \E payload \in (SUBSET UIDs) \ {{}} :
         LET merged == _merge_payload(payload, state, stamp, stamp,
                                      settings.close_missing_runs,
                                      settings.close_not_seen_days) IN
         /\ state' = merged
         /\ seen_this_run' = payload
         /\ new_jobs' = classify_new(merged, payload)
         /\ reminder_jobs' = classify_reminder(merged, payload, stamp,
                                               settings.reminder_days,
                                               settings.daily_reminders)
         /\ open_jobs' = classify_open(merged, payload)
         /\ absent_runs' = [u \in UIDs |->
                IF u \in DOMAIN state /\ u \notin payload
                THEN absent_runs[u] + 1 ELSE 0]
         /\ open_absent_runs' = [u \in UIDs |->
                IF u \in DOMAIN state /\ u \notin payload
                   /\ state[u].status \in OPEN_STATUSES
                THEN open_absent_runs[u] + 1 ELSE 0]
    /\ pc' = "send"
    /\ UNCHANGED <<lockvars, savevars, callvars, now, source_of, settings, state_exists, state_file, seen_file,
                   tracker_file, stamp, tracker_rows, migrated_from_seen,
                   tracker_updates, dispatched, mail_sent, runs, user_ops,
                   pending>>

\* mail_list.py 494-496
send_jobs(a) == IF a.send_open THEN open_jobs ELSE new_jobs
send_reminders(a) == IF a.send_open THEN {} ELSE reminder_jobs

\* mail_list.py 494-502: _maybe_send_mail, then save_state.  The args of the
\* run are read here for the first time.
SendJobAlerts_Send ==
    /\ pc = "send"
    /\ \E a \in ArgsSet, ok \in BOOLEAN :
         LET called == sender_called(a, send_jobs(a), send_reminders(a)) IN
         /\ called \/ ~ok
         /\ dispatched' = send_jobs(a) \cup send_reminders(a)
         /\ state' = _maybe_send_mail(state, a, send_jobs(a), send_reminders(a),
                                      stamp, ok)
         /\ mail_sent' = IF ~called THEN "not_called"
                         ELSE IF ok THEN "ok" ELSE "failed"
         /\ pending' = IF ~called THEN pending
                       ELSE IF ok THEN pending \ dispatched'
                       ELSE pending \cup new_jobs \cup reminder_jobs
    /\ state_file' = state'
    /\ state_exists' = TRUE
    /\ pc' = "saved"
    /\ UNCHANGED <<lockvars, savevars, callvars, now, source_of, settings, seen_file, tracker_file, stamp,
                   tracker_rows, migrated_from_seen, tracker_updates,
                   seen_this_run, new_jobs, reminder_jobs, open_jobs, runs,
                   user_ops, absent_runs, open_absent_runs>>

\* mail_list.py 504-527: write_tracker, release of the run lock.
SendJobAlerts_Finish ==
    /\ pc = "saved"
    /\ tracker_file' = write_tracker(state, tracker_rows)
    /\ pc' = "idle"
    /\ stamp' = None
    /\ state' = EmptyMap
    /\ tracker_rows' = EmptyMap
    /\ migrated_from_seen' = FALSE
    /\ tracker_updates' = 0
    /\ seen_this_run' = {}
    /\ new_jobs' = {}
    /\ reminder_jobs' = {}
    /\ open_jobs' = {}
    /\ dispatched' = {}
    /\ mail_sent' = "none"
    /\ UNCHANGED <<lockvars, savevars, callvars, now, source_of, settings, state_exists, state_file, seen_file, runs,
                   user_ops, histvars>>

\* ------------------------------------------------- the UI and CLI commands
\* A command of the user on the posting u: it runs between two runs, counts
\* against MaxUserOps and ends the wait of u for a repeated send.
UserOp(u) ==
    /\ pc = "idle"
    /\ user_ops < MaxUserOps
    /\ user_ops' = user_ops + 1
    /\ pending' = pending \ {u}
    /\ UNCHANGED <<lockvars, savevars, callvars, source_of, settings, seen_file, runvars, runs, absent_runs,
                   open_absent_runs>>

\* load_state() of a command: now_iso() is read only to migrate seen_jobs.json.
LoadClock == IF state_exists THEN {now} ELSE ClockReadings

\* tracker_ui.py 940-964: POST /api/mark.
TrackerHandler_do_POST_mark ==
    \E u \in UserUIDs, req \in MarkRequests, t \in LoadClock :
      LET st == load_state(t) IN
      /\ u \in DOMAIN st
      /\ req \in {"open", STATUS_NEW, STATUS_NOTIFIED, STATUS_APPLIED, STATUS_IGNORED}
      /\ LET status == IF req \in {"open", STATUS_NEW, STATUS_NOTIFIED}
                       THEN _status_for_open(st[u]) ELSE req
             saved == [st EXCEPT ![u].status = status] IN
         /\ state_file' = saved
         /\ state_exists' = TRUE
         /\ tracker_file' = write_tracker(saved, load_tracker)
      /\ now' = t
      /\ UserOp(u)

\* tools/commands/tracker.py 93-125: mark_applied / mark_ignored with a job_uid
\* that resolve_job_uid resolves to u.
mark_job_status ==
    \E u \in UserUIDs, status \in {STATUS_APPLIED, STATUS_IGNORED}, t \in LoadClock :
      LET st == load_state(t) IN
      /\ st # EmptyMap
      /\ u \in DOMAIN st
      /\ LET saved == [st EXCEPT ![u].status = status] IN
         /\ state_file' = saved
         /\ state_exists' = TRUE
         /\ tracker_file' = write_tracker(saved, load_tracker)
      /\ now' = t
      /\ UserOp(u)

\* tools/commands/tracker.py 6-39.
sync_tracker ==
    \E t \in LoadClock :
      LET st == load_state(t)
          rows == load_tracker IN
      /\ st # EmptyMap
      /\ rows # EmptyMap
      /\ LET marked == apply_tracker_marks(st, rows, t)
             closed == close_aggregator_records(marked) IN
         /\ IF tracker_marked(st, rows) # {} \/ closed_aggregators(marked) # {}
            THEN state_file' = closed /\ state_exists' = TRUE
            ELSE UNCHANGED <<state_file, state_exists>>
         /\ tracker_file' = write_tracker(closed, rows)
      /\ now' = t
      /\ pc = "idle"
      /\ user_ops < MaxUserOps
      /\ user_ops' = user_ops + 1
      /\ UNCHANGED <<lockvars, savevars, callvars, source_of, settings, seen_file, runvars, runs, histvars>>

\* tools/commands/applications.py 300-353: the state update after an
\* application for the posting with UID u was sent.
_update_state_after_send ==
    \E u \in UserUIDs, t \in ClockReadings :
      LET st == load_state(t)
          old == IF u \in DOMAIN st THEN st[u]
                 ELSE [status |-> "", first_seen_at |-> None, last_seen_at |-> None,
                       last_sent_at |-> None, missing_runs |-> 0]
          record == [old EXCEPT
                       !.first_seen_at = IF old.first_seen_at # None
                                         THEN old.first_seen_at ELSE t,
                       !.last_seen_at = t,
                       !.last_sent_at = t,
                       !.status = STATUS_APPLIED]
          saved == [k \in (DOMAIN st) \cup {u} |-> IF k = u THEN record ELSE st[k]] IN
      /\ state_file' = saved
      /\ state_exists' = TRUE
      /\ tracker_file' = write_tracker(saved, load_tracker)
      /\ now' = t
      /\ UserOp(u)

\* The user edits the erledigt and aktion cells of a row of the tracker file.
UserEditsTracker ==
    \E u \in UserUIDs \cap DOMAIN tracker_file, a \in AktionInputs, e \in CHECKBOX_VALUES :
      /\ tracker_file' = [tracker_file EXCEPT ![u].erledigt = e, ![u].aktion = a]
      /\ UserOp(u)
      /\ UNCHANGED <<now, state_exists, state_file>>

\* The free-text cells the user types into a row: a note, and an action text
\* in the user's own spelling.
NotesInputs == {"", "Call back"}
FreeAktionInputs == {"Ignore", " ignore ", "Call back"}

\* The user edits the notes and aktion cells of a row of the tracker file.
UserEntersNotes ==
    \E u \in UserUIDs \cap DOMAIN tracker_file :
    \E n \in NotesInputs, a \in FreeAktionInputs \cup {tracker_file[u].aktion} :
      /\ tracker_file' = [tracker_file EXCEPT ![u].notes = n, ![u].aktion = a]
      /\ UserOp(u)
      /\ UNCHANGED <<now, state_exists, state_file>>

Next ==
    \/ SendJobAlerts_Load
    \/ SendJobAlerts_NoRows
    \/ SendJobAlerts_Merge
    \/ SendJobAlerts_Send
    \/ SendJobAlerts_Finish
    \/ TrackerHandler_do_POST_mark
    \/ mark_job_status
    \/ sync_tracker
    \/ _update_state_after_send
    \/ UserEditsTracker

Spec == Init /\ [][Next]_vars

\* -------------------------------------------- the tracker's manual columns
\* The runs and commands of Spec together with a user who types free text
\* into the tracker: one setting, the legacy seen_jobs.json holds u1.
InitTracker ==
    /\ InitStore
    /\ settings.close_missing_runs = 1
    /\ seen_file = {"u1"}
    /\ LockIdle
    /\ lock_file = NoFile
    /\ ttl_min = 1
    /\ SaveIdle
    /\ CallIdle

NextTracker == Next \/ UserEntersNotes

SpecTracker == InitTracker /\ [][NextTracker]_vars

\* ------------------------------------------------- apply_tracker_marks alone
\* The stores and tracker rows apply_tracker_marks is called with: records of
\* every status with and without applied_at, rows for UIDs with and without a
\* record, cells as the user may have typed them.
MarkRecords ==
    [status : {STATUS_NEW, STATUS_NOTIFIED, STATUS_APPLIED, STATUS_IGNORED, STATUS_CLOSED},
     first_seen_at : {0}, last_seen_at : {0}, last_sent_at : {None},
     missing_runs : {0}, applied_at : {None, 0}]
MarkStores == [{"u1"} -> MarkRecords] \cup [UIDs -> MarkRecords]
MarkRowCells ==
    [erledigt : {CHECKBOX_EMPTY, CHECKBOX_DONE, " x "},
     aktion : {"", "APPLIED", " ignore ", "Call back"},
     notes : {""}]
MarkRows == UNION {[d -> MarkRowCells] : d \in SUBSET UIDs}

InitMarks ==
    /\ now = 0
    /\ source_of = [u \in UIDs |-> "jobs.ch"]
    /\ settings \in SettingsSet /\ settings.close_missing_runs = 2
    /\ state_exists = FALSE
    /\ state_file = EmptyMap
    /\ seen_file = {}
    /\ tracker_file = EmptyMap
    /\ runs = 0
    /\ user_ops = 0
    /\ absent_runs = [u \in UIDs |-> 0]
    /\ open_absent_runs = [u \in UIDs |-> 0]
    /\ pending = {}
    /\ pc = "idle"
    /\ stamp = None
    /\ state \in MarkStores
    /\ tracker_rows \in MarkRows
    /\ migrated_from_seen = FALSE
    /\ tracker_updates = 0
    /\ seen_this_run = {}
    /\ new_jobs = {}
    /\ reminder_jobs = {}
    /\ open_jobs = {}
    /\ dispatched = {}
    /\ mail_sent = "none"
    /\ LockIdle
    /\ lock_file = NoFile
    /\ ttl_min = 1
    /\ SaveIdle
    /\ CallIdle

\* job_tracker.py 130-156: one call of apply_tracker_marks(state, tracker_rows);
\* the second call gets the same rows.
ApplyTrackerMarks ==
    /\ pc \in {"idle", "marked"}
    /\ pc' = IF pc = "idle" THEN "marked" ELSE "marked_again"
    /\ \E t \in ClockReadings :
         /\ now' = t
         /\ state' = apply_tracker_marks(state, tracker_rows, t)
    /\ tracker_updates' = Cardinality(tracker_marked(state, tracker_rows))
    /\ UNCHANGED <<lockvars, savevars, callvars, source_of, settings, state_exists, state_file,
                   seen_file, tracker_file, stamp, tracker_rows, migrated_from_seen,
                   seen_this_run, new_jobs, reminder_jobs, open_jobs, dispatched,
                   mail_sent, runs, user_ops, histvars>>

NextMarks == ApplyTrackerMarks

SpecMarks == InitMarks /\ [][NextMarks]_vars

\* ------------------------------------------------ functions called alone
\* Everything but the call is at rest: no store, no run, no lock, no save.
AtRest ==
    /\ InitStore
    /\ settings.close_missing_runs = 2
    /\ source_of["u1"] = "jobs.ch"
    /\ seen_file = {}
    /\ LockIdle
    /\ lock_file = NoFile
    /\ ttl_min = 1
    /\ SaveIdle

CallFrame == UNCHANGED <<storevars, lockvars, savevars, call>>

\* The arguments of should_send_reminder: last_sent_at missing, unparsable
\* or a tick before or after now_dt; REMINDER_DAYS negative, zero or positive.
MaxReminderTime == 5
MaxReminderDays == 3
ReminderCalls ==
    [fn : {"should_send_reminder"},
     last_sent_at : {None, BadTs} \cup 0..MaxReminderTime,
     now_dt : 0..MaxReminderTime,
     reminder_days : -1..MaxReminderDays,
     daily_reminders : BOOLEAN]

InitReminder ==
    /\ AtRest
    /\ call \in ReminderCalls
    /\ result = Pending

\* job_state.py 253-270: the call returns; nothing else changes.
ShouldSendReminder ==
    /\ call.fn = "should_send_reminder"
    /\ result.outcome = "pending"
    /\ result' = Returned(should_send_reminder(call.last_sent_at, call.now_dt,
                                               call.reminder_days,
                                               call.daily_reminders))
    /\ CallFrame

NextReminder == ShouldSendReminder

SpecReminder == InitReminder /\ [][NextReminder]_vars

\* ---------------------------------------- load_state on any file content
\* What a file holds: it is absent, cannot be read, is no JSON, or is a JSON
\* dict, list or scalar; items are the dict's entries or the list's elements.
FileAbsent == [kind |-> "absent", items |-> << >>]
\* An element of the state file's legacy list: a dict with some job_uid (None:
\* no such key), or a value that is no dict.
StateItems ==
    [kind : {"dict"}, job_uid : {PyStr(<<"u1">>), PyStr(<<"u2">>), PyNone, PyInt, PyList}]
      \cup {[kind |-> "other", job_uid |-> PyNone]}
MaxItems == 2
ItemLists(items) == UNION {[1..n -> items] : n \in 0..MaxItems}
PrimaryContents ==
    {FileAbsent}
      \cup [kind : {"unreadable", "invalid_json", "scalar"}, items : {<< >>}]
      \cup [kind : {"dict"},
            items : {<< >>, <<[kind |-> "dict", job_uid |-> PyStr(<<"u1">>)]>>}]
      \cup [kind : {"list"}, items : ItemLists(StateItems)]

\* An entry of seen_jobs.json: a key (a string), or a dict describing a job.
NoJob ==
    [source |-> PyNone, link |-> PyNone, external_id |-> PyNone,
     title |-> PyNone, company |-> PyNone, location |-> PyNone]
SeenJobs ==
    {NoJob,
     [NoJob EXCEPT !.source = PyStr(<<"jobs.ch">>),
                   !.link = PyStr(<<"https", "://", "example.com", "/job">>)],
     [NoJob EXCEPT !.source = PyStr(<<"jobs.ch">>), !.external_id = PyInt],
     [NoJob EXCEPT !.source = PyInt],
     [NoJob EXCEPT !.title = PyInt]}
SeenEntries ==
    {[kind |-> "str", key |-> <<"k1">>, job |-> NoJob]}
      \cup [kind : {"dict"}, key : {<< >>}, job : SeenJobs]
LegacyContents ==
    {FileAbsent}
      \cup [kind : {"unreadable", "invalid_json", "scalar"}, items : {<< >>}]
      \cup [kind : {"dict"},
            items : {<< >>, <<[kind |-> "str", key |-> <<"k1">>, job |-> NoJob]>>}]
      \cup [kind : {"list"}, items : ItemLists(SeenEntries)]

\* dict[key] = value
DictSet(dict, key, value) ==
    [k \in DOMAIN dict \cup {key} |-> IF k = key THEN value ELSE dict[k]]

\* job_state.py 167-208: the loop over the entries of seen_jobs.json.
RECURSIVE migrate_entries(_, _, _)
migrate_entries(entries, t, migrated) ==
    IF entries = << >> THEN Returned(migrated)
    ELSE LET entry == Head(entries)
             uid == IF entry.kind = "dict" THEN build_job_uid(entry.job)
                    ELSE Returned([job_uid |-> sha256_16(<<"legacy", "|">> \o entry.key),
                                   canonical_url |-> << >>])
             record == [_empty_state_record(t) EXCEPT
                          !.last_sent_at = t, !.status = STATUS_NOTIFIED] IN
         IF uid.outcome = "raised" THEN uid
         ELSE migrate_entries(Tail(entries), t,
                              DictSet(migrated, PyStr(uid.value.job_uid), record))

\* job_state.py 158-210 on the content of seen_jobs.json.
_migrate_seen_jobs_file(seen, t) ==
    IF seen.kind \in {"unreadable", "invalid_json"} THEN Returned(EmptyMap)
    ELSE IF seen.kind \notin {"dict", "list"} THEN Returned(EmptyMap)
    ELSE migrate_entries(seen.items, t, EmptyMap)

\* job_state.py 227-237: the legacy list of the state file, keyed by job_uid.
\* A key that cannot be hashed raises TypeError.
RECURSIVE convert_items(_, _)
convert_items(items, converted) ==
    IF items = << >> THEN Returned(converted)
    ELSE LET item == Head(items) IN
         IF item.kind # "dict" \/ ~Truthy(item.job_uid)
         THEN convert_items(Tail(items), converted)
         ELSE IF item.job_uid.py = "list" THEN Raised("TypeError")
         ELSE convert_items(Tail(items), DictSet(converted, item.job_uid, item))

\* job_state.py 213-243 on the contents of job_state.json and seen_jobs.json.
load_state_files(primary, seen, t) ==
    IF primary.kind # "absent"
    THEN IF primary.kind \in {"unreadable", "invalid_json"} THEN Returned(EmptyMap)
         ELSE IF primary.kind = "dict"
         THEN Returned([k \in {primary.items[i].job_uid : i \in 1..Len(primary.items)} |->
                          [kind |-> "dict", job_uid |-> k]])
         ELSE IF primary.kind = "list" THEN convert_items(primary.items, EmptyMap)
         ELSE Returned(EmptyMap)
    ELSE IF seen.kind # "absent" THEN _migrate_seen_jobs_file(seen, t)
    ELSE Returned(EmptyMap)

InitLoad ==
    /\ AtRest
    /\ call \in [fn : {"load_state"}, primary : PrimaryContents, seen : LegacyContents]
    /\ result = Pending

LoadState ==
    /\ call.fn = "load_state"
    /\ result.outcome = "pending"
    /\ \E t \in ClockReadings : result' = load_state_files(call.primary, call.seen, t)
    /\ CallFrame

NextLoad == LoadState

SpecLoad == InitLoad /\ [][NextLoad]_vars

\* ------------------------------------------------- build_job_uid on two jobs
\* A link, by its parts: scheme and host in lower case or with capitals, the
\* path, a slash after the path, a query string, a fragment.
LinkPaths == {<< >>, <<"/job">>, <<"/Job">>, <<"/job", "/123">>}
LinkParts ==
    [scheme_caps : BOOLEAN, host_caps : BOOLEAN, path : LinkPaths,
     slash : BOOLEAN, query : BOOLEAN, fragment : BOOLEAN]
LinkText(parts) ==
    <<IF parts.scheme_caps THEN "HTTPS" ELSE "https", "://",
      IF parts.host_caps THEN "Example.com" ELSE "example.com">>
      \o parts.path
      \o (IF parts.slash THEN <<"/">> ELSE << >>)
      \o (IF parts.query THEN <<"?utm=x">> ELSE << >>)
      \o (IF parts.fragment THEN <<"#frag">> ELSE << >>)

\* Two jobs of the same source with these links; the second has the title,
\* company, location and external id of the first, or others.
JobWithLink(parts, others) ==
    [source |-> PyStr(<<"jobs.ch">>),
     link |-> PyStr(LinkText(parts)),
     external_id |-> PyStr(IF others THEN <<"id2">> ELSE <<"id1">>),
     title |-> PyStr(IF others THEN <<"Müller AG">> ELSE <<"Senior Dev">>),
     company |-> PyStr(IF others THEN <<"B">> ELSE <<"A">>),
     location |-> PyStr(IF others THEN <<"Bern">> ELSE <<"Basel">>)]

InitUid ==
    /\ AtRest
    /\ call \in [fn : {"build_job_uid"}, a : LinkParts, b : LinkParts, others : BOOLEAN]
    /\ result = Pending

\* job_state.py 82-134: build_job_uid on both jobs.
BuildJobUids ==
    /\ call.fn = "build_job_uid"
    /\ result.outcome = "pending"
    /\ result' = Returned([a |-> build_job_uid(JobWithLink(call.a, FALSE)),
                           b |-> build_job_uid(JobWithLink(call.b, call.others))])
    /\ CallFrame

NextUid == BuildJobUids

SpecUid == InitUid /\ [][NextUid]_vars

\* ------------------------------- a mark command while a run is under way
\* The mark commands take no lock, so the UI or the CLI may run between two
\* steps of send_job_alerts.  The call records the last such command: the
\* run it fell into, the UID and the status it saved.
ConcurrentOp(u, status) ==
    /\ pc \in {"collect", "send", "saved"}
    /\ user_ops < MaxUserOps
    /\ user_ops' = user_ops + 1
    /\ pending' = pending \ {u}
    /\ call' = [fn |-> "mark", run |-> runs, job_uid |-> u, status |-> status]
    /\ UNCHANGED <<lockvars, savevars, result, source_of, settings, seen_file, runvars,
                   runs, absent_runs, open_absent_runs>>

\* tracker_ui.py 940-964: POST /api/mark during a run.
Concurrent_do_POST_mark ==
    \E u \in UserUIDs, req \in MarkRequests, t \in LoadClock :
      LET st == load_state(t) IN
      /\ u \in DOMAIN st
      /\ req \in {"open", STATUS_NEW, STATUS_NOTIFIED, STATUS_APPLIED, STATUS_IGNORED}
      /\ LET status == IF req \in {"open", STATUS_NEW, STATUS_NOTIFIED}
                       THEN _status_for_open(st[u]) ELSE req
             saved == [st EXCEPT ![u].status = status] IN
         /\ state_file' = saved
         /\ state_exists' = TRUE
         /\ tracker_file' = write_tracker(saved, load_tracker)
         /\ ConcurrentOp(u, status)
      /\ now' = t

\* tools/commands/tracker.py 93-125: mark_applied / mark_ignored during a run.
Concurrent_mark_job_status ==
    \E u \in UserUIDs, status \in {STATUS_APPLIED, STATUS_IGNORED}, t \in LoadClock :
      LET st == load_state(t) IN
      /\ st # EmptyMap
      /\ u \in DOMAIN st
      /\ LET saved == [st EXCEPT ![u].status = status] IN
         /\ state_file' = saved
         /\ state_exists' = TRUE
         /\ tracker_file' = write_tracker(saved, load_tracker)
      /\ now' = t
      /\ ConcurrentOp(u, status)

\* The legacy seen_jobs.json holds u1, so that the first run and the commands
\* find a record of it.
InitConcurrent ==
    /\ InitStore
    /\ settings.close_missing_runs = 2
    /\ source_of["u1"] = "jobs.ch"
    /\ seen_file = {"u1"}
    /\ LockIdle
    /\ lock_file = NoFile
    /\ ttl_min = 1
    /\ SaveIdle
    /\ CallIdle

NextConcurrent ==
    \/ SendJobAlerts_Load
    \/ SendJobAlerts_NoRows
    \/ SendJobAlerts_Merge
    \/ SendJobAlerts_Send
    \/ SendJobAlerts_Finish
    \/ Concurrent_do_POST_mark
    \/ Concurrent_mark_job_status

SpecConcurrent == InitConcurrent /\ [][NextConcurrent]_vars

\* ------------------------------------ build_job_uid on the fallback path
\* The fields of a job without link and without external id: the source as
\* the portal wrote it (missing, padded with blanks, with a "|" in it), and
\* title, company and location in several spellings.
FallbackSources ==
    {<< >>, <<"unknown">>, <<"jobs.ch">>, <<" ", "jobs.ch", " ">>, <<"jobs", "|", "ch">>,
     <<"jobs">>}
FallbackTitles == {<< >>, <<"!">>, <<"Senior Dev">>, <<"senior  dev!">>, <<"ch">>}
FallbackCompanies == {<< >>, <<"Müller AG">>, <<"muller ag">>}
FallbackLocations == {<< >>, <<"basel">>}
FallbackFields ==
    [source : FallbackSources, title : FallbackTitles, company : FallbackCompanies,
     location : FallbackLocations]
FallbackJob(fields) ==
    [source |-> PyStr(fields.source), link |-> PyNone, external_id |-> PyNone,
     title |-> PyStr(fields.title), company |-> PyStr(fields.company),
     location |-> PyStr(fields.location)]

InitFallback ==
    /\ AtRest
    /\ call \in [fn : {"build_job_uid_fallback"}, a : FallbackFields, b : FallbackFields]
    /\ result = Pending

\* job_state.py 82-134: build_job_uid on the first job, on the second job, and
\* on the first job once more.
BuildFallbackUids ==
    /\ call.fn = "build_job_uid_fallback"
    /\ result.outcome = "pending"
    /\ result' = Returned([a |-> build_job_uid(FallbackJob(call.a)),
                           b |-> build_job_uid(FallbackJob(call.b)),
                           a_again |-> build_job_uid(FallbackJob(call.a))])
    /\ CallFrame

NextFallback == BuildFallbackUids

SpecFallback == InitFallback /\ [][NextFallback]_vars

\* ------------------------------ tools/commands/tracker.py: resolve_job_uid
\* str.startswith on texts.
startswith(text, prefix) ==
    Len(prefix) <= Len(text) /\ SubSeq(text, 1, Len(prefix)) = prefix

\* resolve_job_uid accepting the prefix or URL as soon as any record matches.
resolve_job_uid_any_match(st, job_uid, url) ==
    IF job_uid # << >>
    THEN LET matches == {uid \in DOMAIN st : startswith(uid, job_uid)} IN
         IF matches # {} THEN PyStr(CHOOSE uid \in matches : TRUE) ELSE PyNone
    ELSE IF url # << >>
    THEN LET target == strip_text(url)
             target_canon == canonicalize_url(target)
             matches == {uid \in DOMAIN st :
                            \/ target # << >> /\ target = st[uid].link
                            \/ /\ target_canon # << >>
                               /\ \/ /\ st[uid].canonical_url # << >>
                                     /\ canonicalize_url(st[uid].canonical_url) = target_canon
                                  \/ /\ st[uid].link # << >>
                                     /\ canonicalize_url(st[uid].link) = target_canon} IN
         IF matches # {} THEN PyStr(CHOOSE uid \in matches : TRUE) ELSE PyNone
    ELSE PyNone

\* tracker.py 52-90.  Every record is appended to matches at most once, so
\* len(matches) is the number of matching UIDs.
resolve_job_uid(st, job_uid, url) ==
    IF job_uid # << >>
    THEN LET matches == {uid \in DOMAIN st : startswith(uid, job_uid)} IN
         IF Cardinality(matches) = 1 THEN PyStr(CHOOSE uid \in matches : TRUE)
         ELSE PyNone
    ELSE IF url # << >>
    THEN LET target == strip_text(url)
             target_canon == canonicalize_url(target)
             matches == {uid \in DOMAIN st :
                            \/ target # << >> /\ target = st[uid].link
                            \/ /\ target_canon # << >>
                               /\ \/ /\ st[uid].canonical_url # << >>
                                     /\ canonicalize_url(st[uid].canonical_url) = target_canon
                                  \/ /\ st[uid].link # << >>
                                     /\ canonicalize_url(st[uid].link) = target_canon} IN
         IF Cardinality(matches) = 1 THEN PyStr(CHOOSE uid \in matches : TRUE)
         ELSE PyNone
    ELSE PyNone

\* tracker.py 93-119: mark_job_status on the store load_state returned; what
\* resolve_job_uid returned, the store afterwards, and whether save_state was
\* called.
mark_job_status_call(st, job_uid, url, status) ==
    LET resolved == resolve_job_uid(st, job_uid, url) IN
    IF st = EmptyMap THEN [resolved |-> PyNone, state |-> st, saved |-> FALSE]
    ELSE IF ~Truthy(resolved) THEN [resolved |-> resolved, state |-> st, saved |-> FALSE]
    ELSE [resolved |-> resolved,
          state |-> [st EXCEPT ![resolved.s].status = status],
          saved |-> TRUE]

\* The stores of the command: up to three records, two of them with UIDs of a
\* common beginning; links in several spellings of two postings, with and
\* without the canonical URL.
ResolveUIDs == {<<"abcd", "1234">>, <<"abcd", "9999">>, <<"ef01">>}
ResolveLinks ==
    {[link |-> <<"https", "://", "example.com", "/job">>,
      canonical_url |-> <<"https", "://", "example.com", "/job">>],
     [link |-> <<"HTTPS", "://", "Example.com", "/job", "/", "?utm=x">>,
      canonical_url |-> << >>],
     [link |-> <<"https", "://", "example.com", "/job", "/123">>,
      canonical_url |-> <<"https", "://", "example.com", "/job", "/123">>],
     [link |-> << >>, canonical_url |-> << >>]}
ResolveRecords ==
    {[link |-> l.link, canonical_url |-> l.canonical_url, status |-> STATUS_NEW] :
        l \in ResolveLinks}
ResolveStores == UNION {[d -> ResolveRecords] : d \in SUBSET ResolveUIDs}

\* The arguments of mark-applied / mark-ignored: a UID or the beginning of
\* one, and a URL as the user typed it.
ResolvePrefixes == {<< >>, <<"abcd">>, <<"abcd", "1234">>, <<"abcd", "1234", "5">>, <<"zz">>}
ResolveUrls ==
    {<< >>, <<" ">>,
     <<"https", "://", "example.com", "/job">>,
     <<" ", "https", "://", "example.com", "/job", "/", " ">>,
     <<"HTTPS", "://", "Example.com", "/job", "/", "?utm=x">>,
     <<"https", "://", "example.com", "/job", "/123", "#frag">>}

InitResolve ==
    /\ AtRest
    /\ call \in [fn : {"mark_job_status"}, state : ResolveStores,
                  job_uid : ResolvePrefixes, url : ResolveUrls,
                  status : {STATUS_APPLIED, STATUS_IGNORED}]
    /\ result = Pending

MarkJobStatusCall ==
    /\ call.fn = "mark_job_status"
    /\ result.outcome = "pending"
    /\ result' = Returned(mark_job_status_call(call.state, call.job_uid, call.url,
                                               call.status))
    /\ CallFrame

NextResolve == MarkJobStatusCall

SpecResolve == InitResolve /\ [][NextResolve]_vars

\* ------------------------------------------------ _classify_jobs on its own
\* A score as a record holds it: a number, a text, or None (no score).
PyNum(n) == [py |-> "num", s |-> << >>, n |-> n]
\* float() on the texts of the model; every other text raises ValueError.
FloatTable == [t \in {<<"2">>, <<" 1 ">>} |-> IF t = <<"2">> THEN 2 ELSE 1]

\* tools/common.py 49-53
score_value(value) ==
    IF value.py = "num" THEN value.n
    ELSE IF value.py = "str" /\ value.s \in DOMAIN FloatTable THEN FloatTable[value.s]
    ELSE 0

\* list.sort(key=..., reverse=True) that drops the reverse flag.
RECURSIVE sort_by_score_ascending(_, _)
sort_by_score_ascending(records, st) ==
    IF records = << >> THEN << >>
    ELSE LET sorted == sort_by_score_ascending(SubSeq(records, 1, Len(records) - 1), st)
             last == records[Len(records)]
             before == {i \in 1..Len(sorted) :
                          score_value(st[sorted[i]].score) <= score_value(st[last].score)}
             k == Cardinality(before) IN
         SubSeq(sorted, 1, k) \o <<last>> \o SubSeq(sorted, k + 1, Len(sorted))

\* mail_list.py 288-290: list.sort(key=score_value(score), reverse=True), a
\* stable sort: records of equal key keep the order they were appended in.
\* The list holds the UIDs of the records.
RECURSIVE sort_by_score(_, _)
sort_by_score(records, st) ==
    IF records = << >> THEN << >>
    ELSE LET sorted == sort_by_score(SubSeq(records, 1, Len(records) - 1), st)
             last == records[Len(records)]
             before == {i \in 1..Len(sorted) :
                          score_value(st[sorted[i]].score) >= score_value(st[last].score)}
             k == Cardinality(before) IN
         SubSeq(sorted, 1, k) \o <<last>> \o SubSeq(sorted, k + 1, Len(sorted))

\* The orders in which "for uid in seen_this_run" may visit a set.
IterationOrders(seen) ==
    {order \in [1..Cardinality(seen) -> seen] :
        \A i, j \in 1..Cardinality(seen) : order[i] = order[j] => i = j}

\* mail_list.py 244-291, the three loops visiting seen_this_run in this order.
_classify_jobs(st, order, now_dt, reminder_days, daily_reminders) ==
    LET seen == {order[i] : i \in 1..Len(order)}
        news == classify_new(st, seen)
        reminders == classify_reminder(st, seen, now_dt, reminder_days, daily_reminders)
        opens == classify_open(st, seen) IN
    [new_jobs |-> sort_by_score(SelectSeq(order, LAMBDA u : u \in news), st),
     reminder_jobs |-> sort_by_score(SelectSeq(order, LAMBDA u : u \in reminders), st),
     open_jobs |-> sort_by_score(SelectSeq(order, LAMBDA u : u \in opens), st)]

\* The records _classify_jobs may find: every status, sent before or never,
\* with a score that is a number, a numeric or other text, or missing.
ClassifyUIDs == {"u1", "u2", "u3"}
ClassifyRecords ==
    {[status |-> STATUS_NEW, last_sent_at |-> None, score |-> PyNum(2)],
     [status |-> STATUS_NEW, last_sent_at |-> None, score |-> PyStr(<<"n/a">>)],
     [status |-> STATUS_NEW, last_sent_at |-> 0, score |-> PyNum(1)],
     [status |-> STATUS_NOTIFIED, last_sent_at |-> 0, score |-> PyStr(<<" 1 ">>)],
     [status |-> STATUS_NOTIFIED, last_sent_at |-> 0, score |-> PyStr(<<"2">>)],
     [status |-> STATUS_NOTIFIED, last_sent_at |-> None, score |-> PyNone],
     [status |-> STATUS_APPLIED, last_sent_at |-> 0, score |-> PyNum(2)],
     [status |-> STATUS_IGNORED, last_sent_at |-> None, score |-> PyNum(2)],
     [status |-> STATUS_CLOSED, last_sent_at |-> 0, score |-> PyNum(1)],
     [status |-> "", last_sent_at |-> None, score |-> PyNum(2)]}
ClassifyStores == UNION {[d -> ClassifyRecords] : d \in SUBSET ClassifyUIDs}

InitClassify ==
    /\ AtRest
    /\ call \in [fn : {"_classify_jobs"}, state : ClassifyStores,
                  seen_this_run : SUBSET ClassifyUIDs,
                  now_dt : {0, TicksPerDay}, reminder_days : {1},
                  daily_reminders : BOOLEAN]
    /\ result = Pending

ClassifyJobs ==
    /\ call.fn = "_classify_jobs"
    /\ result.outcome = "pending"
    /\ \E order \in IterationOrders(call.seen_this_run) :
         result' = Returned(_classify_jobs(call.state, order, call.now_dt,
                                           call.reminder_days, call.daily_reminders))
    /\ CallFrame

NextClassify == ClassifyJobs

SpecClassify == InitClassify /\ [][NextClassify]_vars

\* ------------------------------------- the absence step on one record
\* A record whose UID is not in the batch: any status, counted absent before
\* or not, last seen at some tick or with a last_seen_at that is missing or
\* does not parse; CLOSE_MISSING_RUNS and CLOSE_NOT_SEEN_DAYS negative, zero
\* or positive.
AbsentRecords ==
    [status : {STATUS_NEW, STATUS_NOTIFIED, STATUS_APPLIED, STATUS_IGNORED, STATUS_CLOSED},
     first_seen_at : {0}, last_seen_at : {None, BadTs} \cup 0..MaxAbsenceTime,
     last_sent_at : {None}, missing_runs : 0..MaxThreshold]

InitAbsence ==
    /\ AtRest
    /\ call \in [fn : {"_merge_payload"}, record : AbsentRecords,
                  now_dt : 0..MaxAbsenceTime,
                  close_missing_runs : -1..MaxThreshold,
                  close_not_seen_days : -1..MaxThreshold]
    /\ result = Pending

\* mail_list.py 223-239: one turn of the loop over the records of the state,
\* for a UID that is not in seen_this_run.
MergeMissingRecord ==
    /\ call.fn = "_merge_payload"
    /\ result.outcome = "pending"
    /\ result' = Returned(merge_missing_record(call.record, call.now_dt,
                                               call.close_missing_runs,
                                               call.close_not_seen_days))
    /\ CallFrame

NextAbsence == MergeMissingRecord

SpecAbsence == InitAbsence /\ [][NextAbsence]_vars

\* ------------------------------------------------------------ the run lock
\* mail_list.py 34-38 and 42-57: _lock_is_stale, as the reader finds the file.
\* A file that vanished, is still empty or holds no started_at reads as {}.
\* _lock_is_stale that takes a lock for stale as soon as its age reaches the TTL.
_lock_is_stale_at_ttl(file, ttl, clock) ==
    IF ttl <= 0 THEN TRUE
    ELSE IF file.owner = "" THEN TRUE
    ELSE IF file.started_at = None THEN TRUE
    ELSE IF parse_ts(file.started_at) = None THEN TRUE
    ELSE (clock - parse_ts(file.started_at)) >= ttl

_lock_is_stale(file, ttl, clock) ==
    IF ttl <= 0 THEN TRUE
    ELSE IF file.owner = "" THEN TRUE
    ELSE IF file.started_at = None THEN TRUE
    ELSE IF parse_ts(file.started_at) = None THEN TRUE
    ELSE (clock - parse_ts(file.started_at)) > ttl

LockFrame == UNCHANGED <<storevars, savevars, callvars, ttl_min>>

\* mail_list.py 71: lock_path.exists().
AcquireRunLock_Exists(p) ==
    /\ inv_pc[p] = "start"
    /\ inv_pc' = [inv_pc EXCEPT ![p] = IF lock_file # NoFile THEN "stale_check" ELSE "create"]
    /\ UNCHANGED <<lock_file, acquired, lock_clock>>
    /\ LockFrame

\* mail_list.py 72-77: _lock_is_stale(lock_path, ttl_min); abort on a live lock.
AcquireRunLock_StaleCheck(p) ==
    /\ inv_pc[p] = "stale_check"
    /\ inv_pc' = [inv_pc EXCEPT ![p] =
                    IF _lock_is_stale(lock_file, ttl_min, lock_clock)
                    THEN "unlink" ELSE "aborted"]
    /\ UNCHANGED <<lock_file, acquired, lock_clock>>
    /\ LockFrame

\* mail_list.py 60-66: _release_run_lock unlinks whatever file is at the path.
_release_run_lock == NoFile

\* mail_list.py 78: the lock found stale is removed.
AcquireRunLock_Unlink(p) ==
    /\ inv_pc[p] = "unlink"
    /\ lock_file' = _release_run_lock
    /\ inv_pc' = [inv_pc EXCEPT ![p] = "create"]
    /\ UNCHANGED <<acquired, lock_clock>>
    /\ LockFrame

\* mail_list.py 82-96: the payload is built (started_at = now_iso()) and
\* lock_path.open("x") creates the file, empty, or raises FileExistsError.
AcquireRunLock_Create(p) ==
    /\ inv_pc[p] = "create"
    /\ IF lock_file # NoFile
       THEN /\ inv_pc' = [inv_pc EXCEPT ![p] = "aborted"]
            /\ UNCHANGED lock_file
       ELSE /\ inv_pc' = [inv_pc EXCEPT ![p] = "write"]
            /\ lock_file' = [owner |-> p, started_at |-> None, payload |-> lock_clock]
    /\ UNCHANGED <<acquired, lock_clock>>
    /\ LockFrame

\* mail_list.py 89-90 and 103-106: json.dump reaches the file when the with
\* block closes it (if it is still the file at the path); return True.
AcquireRunLock_Write(p) ==
    /\ inv_pc[p] = "write"
    /\ lock_file' = IF lock_file.owner = p
                    THEN [lock_file EXCEPT !.started_at = lock_file.payload]
                    ELSE lock_file
    /\ inv_pc' = [inv_pc EXCEPT ![p] = "running"]
    /\ acquired' = [acquired EXCEPT ![p] = TRUE]
    /\ UNCHANGED lock_clock
    /\ LockFrame

\* tasks.py 113-161: cmd_mail_list (python tasks.py mail-list) starts the
\* same pipeline without taking the run lock.
cmd_mail_list(p) ==
    /\ inv_pc[p] = "start"
    /\ inv_pc' = [inv_pc EXCEPT ![p] = "running"]
    /\ UNCHANGED <<lock_file, acquired, lock_clock>>
    /\ LockFrame

\* mail_list.py 526-527: the run ends and releases the lock.
SendJobAlerts_Release(p) ==
    /\ inv_pc[p] = "running"
    /\ lock_file' = IF acquired[p] THEN _release_run_lock ELSE lock_file
    /\ inv_pc' = [inv_pc EXCEPT ![p] = "released"]
    /\ UNCHANGED <<acquired, lock_clock>>
    /\ LockFrame

\* mail_list.py 103: atexit runs _release_run_lock once more when the
\* interpreter exits.
AtExit(p) ==
    /\ inv_pc[p] = "released"
    /\ lock_file' = IF acquired[p] THEN _release_run_lock ELSE lock_file
    /\ inv_pc' = [inv_pc EXCEPT ![p] = "exited"]
    /\ UNCHANGED <<acquired, lock_clock>>
    /\ LockFrame

\* The process is killed during the run: neither the release nor atexit runs.
Killed(p) ==
    /\ inv_pc[p] = "running"
    /\ inv_pc' = [inv_pc EXCEPT ![p] = "killed"]
    /\ UNCHANGED <<lock_file, acquired, lock_clock>>
    /\ LockFrame

\* A minute passes.
LockTick ==
    /\ lock_clock < MaxLockTime
    /\ lock_clock' = lock_clock + 1
    /\ UNCHANGED <<lock_file, inv_pc, acquired>>
    /\ LockFrame

\* The store is left alone; the lock file is absent or a leftover, and the
\* TTL is one or two minutes.
InitLock ==
    /\ InitStore
    /\ settings.close_missing_runs = 2
    /\ source_of["u1"] = "jobs.ch"
    /\ seen_file = {}
    /\ SaveIdle
    /\ CallIdle
    /\ LockIdle
    /\ lock_file \in {NoFile, LeftoverLock}
    /\ ttl_min \in {1, 2}

NextLock ==
    \/ \E p \in Procs : AcquireRunLock_Exists(p)
    \/ \E p \in Procs : AcquireRunLock_StaleCheck(p)
    \/ \E p \in Procs : AcquireRunLock_Unlink(p)
    \/ \E p \in Procs : AcquireRunLock_Create(p)
    \/ \E p \in Procs : AcquireRunLock_Write(p)
    \/ \E p \in Procs : cmd_mail_list(p)
    \/ \E p \in Procs : SendJobAlerts_Release(p)
    \/ \E p \in Procs : AtExit(p)
    \/ \E p \in Procs : Killed(p)
    \/ LockTick

SpecLock == InitLock /\ [][NextLock]_vars

\* ------------------------------------------- one _acquire_run_lock alone
\* What the invocation may find at the lock path: no file, a file without a
\* started_at (empty, no JSON, no such key), one whose started_at does not
\* parse, or a lock started at some minute.
LockFilesFound ==
    {NoFile}
      \cup {[owner |-> "p0", started_at |-> ts, payload |-> ts] :
               ts \in {None, BadTs} \cup 0..MaxLockTime}

\* RUN_LOCK_TTL_MIN: negative, zero, one or two minutes.
TtlChoices == -1..2

\* Invocation p1 is about to call _acquire_run_lock; nothing else runs and
\* the call holds the file it is going to find.
InitAcquire ==
    /\ InitStore
    /\ settings.close_missing_runs = 2
    /\ source_of["u1"] = "jobs.ch"
    /\ seen_file = {}
    /\ SaveIdle
    /\ inv_pc = [p \in Procs |-> "start"]
    /\ acquired = [p \in Procs |-> FALSE]
    /\ lock_clock \in 0..MaxLockTime
    /\ ttl_min \in TtlChoices
    /\ call \in [fn : {"_acquire_run_lock"}, found : LockFilesFound]
    /\ lock_file = call.found
    /\ result = Pending

NextAcquire ==
    \/ AcquireRunLock_Exists("p1")
    \/ AcquireRunLock_StaleCheck("p1")
    \/ AcquireRunLock_Unlink("p1")
    \/ AcquireRunLock_Create("p1")
    \/ AcquireRunLock_Write("p1")

SpecAcquire == InitAcquire /\ [][NextAcquire]_vars

\* ------------------------------------------------- the write path of save_state
\* json.dumps(state, sort_keys=True), token by token: the opening brace, one
\* token per key with its record, the closing brace.
UIDOrder == <<"u1", "u2">>

json_dumps(st) ==
    LET F[i \in 0..Len(UIDOrder)] ==
          IF i = 0 THEN << >>
          ELSE IF UIDOrder[i] \in DOMAIN st
               THEN Append(F[i - 1], [key |-> UIDOrder[i], value |-> st[UIDOrder[i]]])
               ELSE F[i - 1]
    IN <<[key |-> "{", value |-> None]>> \o F[Len(UIDOrder)]
          \o <<[key |-> "}", value |-> None]>>

\* json.loads succeeds on a complete document only.
json_complete(text) ==
    /\ Len(text) >= 2
    /\ text[1].key = "{"
    /\ text[Len(text)].key = "}"

json_loads(text) ==
    LET entries == 2..(Len(text) - 1) IN
    [u \in {text[i].key : i \in entries} |->
        text[CHOOSE i \in entries : text[i].key = u].value]

\* job_state.py 219-223: load_state on an existing state file; a text that
\* does not parse gives the empty store.
load_state_text(text) ==
    IF json_complete(text) THEN json_loads(text) ELSE EmptyMap

\* The stores a run can hold when it saves: the UIDs it knows, each record
\* new or applied.
SaveRecords == {[merge_new_record(0) EXCEPT !.status = st] :
                  st \in {STATUS_NEW, STATUS_APPLIED}}
SaveStores == UNION {[D -> SaveRecords] : D \in (SUBSET UIDs) \ {{}}}

SaveFrame == UNCHANGED <<storevars, lockvars, callvars>>

\* job_state.py 246-249: save_state is called with the store of the run;
\* the payload is built before the file is touched.
save_state_Begin ==
    /\ save_pc \in {"idle", "reloaded"}
    /\ \E st \in SaveStores :
         /\ save_new' = st
         /\ save_old' = load_state_text(disk)
    /\ save_pc' = "dumped"
    /\ UNCHANGED <<disk, reloaded>>
    /\ SaveFrame

\* job_state.py 250: path.write_text opens the file for writing, which
\* truncates it.
save_state_Truncate ==
    /\ save_pc = "dumped"
    /\ disk' = << >>
    /\ save_pc' = "writing"
    /\ UNCHANGED <<save_old, save_new, reloaded>>
    /\ SaveFrame

\* job_state.py 250: the payload reaches the file piece by piece; the call
\* returns when the last piece is written.
save_state_Write ==
    /\ save_pc = "writing"
    /\ Len(disk) < Len(json_dumps(save_new))
    /\ disk' = SubSeq(json_dumps(save_new), 1, Len(disk) + 1)
    /\ save_pc' = IF Len(disk') = Len(json_dumps(save_new)) THEN "idle" ELSE "writing"
    /\ UNCHANGED <<save_old, save_new, reloaded>>
    /\ SaveFrame

\* The process dies during save_state.
save_state_Crash ==
    /\ save_pc \in {"dumped", "writing"}
    /\ save_pc' = "crashed"
    /\ UNCHANGED <<disk, save_old, save_new, reloaded>>
    /\ SaveFrame

\* job_state.py 213-243: the next load_state.
load_state_AfterCrash ==
    /\ save_pc = "crashed"
    /\ reloaded' = load_state_text(disk)
    /\ save_pc' = "reloaded"
    /\ UNCHANGED <<disk, save_old, save_new>>
    /\ SaveFrame

InitSave ==
    /\ InitStore
    /\ settings.close_missing_runs = 2
    /\ source_of["u1"] = "jobs.ch"
    /\ seen_file = {}
    /\ LockIdle
    /\ lock_file = NoFile
    /\ ttl_min = 1
    /\ SaveIdle
    /\ CallIdle

NextSave ==
    \/ save_state_Begin
    \/ save_state_Truncate
    \/ save_state_Write
    \/ save_state_Crash
    \/ load_state_AfterCrash

SpecSave == InitSave /\ [][NextSave]_vars

\* ------------------------------------------------------------------ claims
\* The step of a run that is the Reconciler pass (_merge_payload).
PassStep == pc = "collect" /\ pc' = "send"
\* The step of a run that calls _maybe_send_mail and saves the state.
SendStep == pc = "send" /\ pc' = "saved"
\* The step of a run that loads the state and applies the tracker marks.
LoadStep == pc = "idle" /\ pc' = "collect"
\* A step of a UI or CLI command.
CommandStep == pc = "idle" /\ pc' = "idle"

\* C1: a record that enters a Reconciler pass as applied or ignored leaves it
\* with the same status, its UID in the fresh batch or not.
C1_StickyAcrossPass ==
    [][PassStep =>
         \A u \in DOMAIN state :
            state[u].status \in {STATUS_APPLIED, STATUS_IGNORED}
            => /\ u \in DOMAIN state'
               /\ state'[u].status = state[u].status]_vars

\* A pass has run over an applied or ignored record that was absent from the
\* batch, with close_missing_runs = 1 (an open record would have been closed),
\* the other record being in the batch.
C1_Witness ==
    /\ pc = "send"
    /\ settings.close_missing_runs = 1
    /\ \E u \in DOMAIN state \ seen_this_run :
          state[u].status \in {STATUS_APPLIED, STATUS_IGNORED}

\* C2: _maybe_send_mail sets status = notified and last_sent_at = stamp on
\* exactly the dispatched records when the sender returned success, and leaves
\* the status and last_sent_at of every record alone in every other case
\* (sender failed or disabled, empty lists, dry run).
C2_MarksExactlyDispatchedOnSuccess ==
    [][SendStep =>
         /\ DOMAIN state' = DOMAIN state
         /\ \A u \in DOMAIN state :
              IF mail_sent' = "ok" /\ u \in dispatched'
              THEN /\ state'[u].status = STATUS_NOTIFIED
                   /\ state'[u].last_sent_at = stamp
              ELSE /\ state'[u].status = state[u].status
                   /\ state'[u].last_sent_at = state[u].last_sent_at]_vars

\* A successful send has marked one record while another record of the store
\* was not dispatched.
C2_Witness ==
    /\ pc = "saved"
    /\ mail_sent = "ok"
    /\ \E u \in dispatched : state[u].status = STATUS_NOTIFIED /\ state[u].last_sent_at = stamp
    /\ \E u \in DOMAIN state \ dispatched : state[u].status = STATUS_NEW

\* The close_not_seen_days criterion of the absence step, for a record of a
\* pass taken at stamp.
DaysCriterion(record) ==
    /\ settings.close_not_seen_days > 0
    /\ parse_ts(record.last_seen_at) # None
    /\ days(stamp, parse_ts(record.last_seen_at)) >= settings.close_not_seen_days

\* C3 (as stated): with close_missing_runs = N > 0, an open record is not
\* closed by a pass while it has been absent from fewer than N consecutive
\* passes.
C3_NotClosedBeforeNthPass ==
    [][PassStep =>
         \A u \in DOMAIN state \ seen_this_run' :
            /\ state[u].status \in OPEN_STATUSES
            /\ settings.close_missing_runs > 0
            /\ absent_runs'[u] < settings.close_missing_runs
            => state'[u].status # STATUS_CLOSED]_vars

\* C3 (amended): with close_missing_runs = N > 0, a record that entered each
\* of N consecutive passes open and absent from the batch is closed by the
\* N-th of them; after fewer than N consecutive absent passes the pass leaves
\* its status alone unless the close_not_seen_days criterion applies, and
\* when that criterion applies the pass closes it whatever the count.
C3_ClosedAtNthPassOrByDays ==
    [][PassStep =>
         \A u \in DOMAIN state \ seen_this_run' :
            /\ state[u].status \in OPEN_STATUSES
            /\ settings.close_missing_runs > 0
            => /\ open_absent_runs'[u] >= settings.close_missing_runs
                  => state'[u].status = STATUS_CLOSED
               /\ (absent_runs'[u] < settings.close_missing_runs /\ ~DaysCriterion(state[u]))
                  => state'[u].status = state[u].status
               /\ DaysCriterion(state[u]) => state'[u].status = STATUS_CLOSED]_vars

\* With N = 2, a record has been closed by the second of two consecutive
\* passes it entered open and absent, the days criterion not applying.
C3_Witness ==
    /\ pc = "send"
    /\ settings.close_missing_runs = 2
    /\ \E u \in DOMAIN state \ seen_this_run :
          /\ open_absent_runs[u] = 2
          /\ state[u].status = STATUS_CLOSED
          /\ ~DaysCriterion(state[u])

\* C9 (as stated): in every pass, the missing_runs of every record whose UID
\* is absent from the batch grows by exactly 1, and that of every record whose
\* UID is in the batch is 0 afterwards.
C9_EveryAbsentRecordCounted ==
    [][PassStep =>
         \A u \in DOMAIN state :
            state'[u].missing_runs =
               IF u \in seen_this_run' THEN 0 ELSE state[u].missing_runs + 1]_vars

\* C9 (amended): in every pass, the missing_runs of a record absent from the
\* batch grows by exactly 1 when the record enters the pass open (new or
\* notified) and is unchanged when it enters applied, ignored or closed; the
\* missing_runs of every record whose UID is in the batch, newly created ones
\* included, is 0 afterwards.
C9_OpenAbsentRecordCounted ==
    [][PassStep =>
         /\ \A u \in DOMAIN state :
              state'[u].missing_runs =
                 IF u \in seen_this_run' THEN 0
                 ELSE IF state[u].status \in OPEN_STATUSES THEN state[u].missing_runs + 1
                 ELSE state[u].missing_runs
         /\ \A u \in seen_this_run' : state'[u].missing_runs = 0]_vars

\* A pass has left alone the count of an absent applied or ignored record
\* that had been counted absent before its mark, and reset the count of the
\* record in the batch.
C9_Witness ==
    /\ pc = "send"
    /\ \E u \in DOMAIN state \ seen_this_run :
          /\ state[u].status \in {STATUS_APPLIED, STATUS_IGNORED}
          /\ state[u].missing_runs = 1
          /\ absent_runs[u] = 2

\* The UIDs of the persisted store: what load_state returns the records of.
StoredUIDs == IF state_exists THEN DOMAIN state_file ELSE seen_file

\* C6: over every step of a run and every UI/CLI command, a UID of the
\* persisted store is still a UID of the persisted store afterwards (the store
\* is a mapping, so it holds one record per UID), and a run's in-memory store
\* holds every UID it loaded until it is saved.
C6_StoreNeverLosesUID ==
    [][/\ StoredUIDs \subseteq StoredUIDs'
       /\ pc' \in {"collect", "send", "saved"} => StoredUIDs \subseteq DOMAIN state']_vars

\* Two runs and a user command have passed, and the store holds both UIDs,
\* one of them closed.
C6_Witness ==
    /\ pc = "idle"
    /\ runs = 2
    /\ user_ops >= 1
    /\ DOMAIN state_file = UIDs
    /\ \E u \in UIDs : state_file[u].status = STATUS_CLOSED

\* The status of u in a store, "" when the store has no record of u.
StatusIn(st, u) == IF u \in DOMAIN st THEN st[u].status ELSE ""

\* What load_state returns in the current state when no migration is needed,
\* and the migrated records (all notified) otherwise.
Persisted == IF state_exists THEN state_file ELSE _migrate_seen_jobs(seen_file, now)

\* The absence step closed u in this pass: u was not in the batch, entered the
\* pass open, and one of the two thresholds was met.
ClosedByAbsence(u) ==
    /\ PassStep
    /\ u \notin seen_this_run'
    /\ state[u].status \in OPEN_STATUSES
    /\ \/ /\ settings.close_missing_runs > 0
          /\ state'[u].missing_runs >= settings.close_missing_runs
       \/ DaysCriterion(state[u])

\* A record becomes closed in this step, in memory or in the persisted store.
BecomesClosedInMemory(u) ==
    /\ pc \in {"collect", "send", "saved"}
    /\ pc' \in {"collect", "send", "saved"}
    /\ StatusIn(state, u) # STATUS_CLOSED
    /\ StatusIn(state', u) = STATUS_CLOSED

BecomesClosedOnLoad(u) ==
    /\ LoadStep
    /\ StatusIn(Persisted, u) # STATUS_CLOSED
    /\ StatusIn(state', u) = STATUS_CLOSED

BecomesClosedByCommand(u) ==
    /\ CommandStep
    /\ StatusIn(Persisted, u) # STATUS_CLOSED
    /\ StatusIn(state_file', u) = STATUS_CLOSED

\* A run saves what it holds in memory (_maybe_send_mail and save_state are
\* one step: the saved store is the in-memory store after the step).
SaveWritesMemory ==
    (pc # "idle" /\ state_file' # state_file)
    => state_file' = (IF pc' = "idle" THEN state ELSE state')

SyncTrackerClosed(u) ==
    /\ CommandStep
    /\ source_of[u] \in AGGREGATOR_SOURCES
    /\ StatusIn(apply_tracker_marks(Persisted, load_tracker, now'), u) \in OPEN_STATUSES
    /\ state_file' = close_aggregator_records(apply_tracker_marks(Persisted, load_tracker, now'))

C8_ReopenedOnlyByPass ==
    [][\A u \in UIDs :
         /\ (/\ pc # "idle" /\ pc' # "idle"
             /\ StatusIn(state, u) = STATUS_CLOSED
             /\ StatusIn(state', u) \in OPEN_STATUSES)
            => /\ PassStep
               /\ u \in seen_this_run'
               /\ state'[u].status = IF state[u].last_sent_at # None
                                     THEN STATUS_NOTIFIED ELSE STATUS_NEW
         /\ (/\ CommandStep
             /\ StatusIn(Persisted, u) = STATUS_CLOSED)
            => StatusIn(state_file', u) \notin OPEN_STATUSES
         /\ (/\ LoadStep
             /\ StatusIn(Persisted, u) = STATUS_CLOSED)
            => StatusIn(state', u) \notin OPEN_STATUSES]_vars

\* A pass has reopened a closed record whose UID came back in the batch.
C8_Witness ==
    /\ pc = "send"
    /\ \E u \in seen_this_run \cap DOMAIN state_file :
          /\ state_file[u].status = STATUS_CLOSED
          /\ source_of[u] \notin AGGREGATOR_SOURCES
          /\ state[u].status \in OPEN_STATUSES

\* C10: when the send of a run failed, every record of that run's New or
\* Reminder group is in the New or Reminder group of every later run whose
\* batch contains its UID, until a send that dispatches it succeeds or the
\* user marks it (settings fixed, clock monotone).
C10_FailedSendIsRetried ==
    pc = "send" => (pending \cap seen_this_run) \subseteq (new_jobs \cup reminder_jobs)

\* A later run has classified a record whose earlier send failed, and that
\* record was already notified (so that it is the reminder rule that puts it
\* back).
C10_Witness ==
    /\ pc = "send"
    /\ \E u \in pending \cap seen_this_run :
          /\ u \in reminder_jobs
          /\ state[u].last_sent_at # None
          /\ ~settings.daily_reminders
          /\ settings.reminder_days > 0

\* An invocation is past a successful _acquire_run_lock and before its release.
HoldsRunLock(p) == inv_pc[p] = "running" /\ acquired[p]

\* C4: at no time are two invocations both past a successful lock
\* acquisition and before their lock release.
C4_MutualExclusion ==
    \A p, q \in Procs : (HoldsRunLock(p) /\ HoldsRunLock(q)) => p = q

\* C5: after a crash at any point of save_state, the next load_state returns
\* the complete mapping from before the save or the complete mapping being
\* saved.
C5_CrashLeavesOldOrNew ==
    save_pc = "reloaded" => reloaded \in {save_old, save_new}

\* A step in which a run writes the tracker file (the end of the no-rows
\* branch or the end of the run).
RunWritesTracker == pc \in {"collect", "saved"} /\ pc' = "idle"

\* A record of the store that the rows loaded by the run mark applied or
\* ignored is not dispatched by the run.
MarkedNotDispatched ==
    SendStep =>
      \A u \in (DOMAIN tracker_rows) \cap StoredUIDs :
         desired_status(tracker_rows[u]) \in {STATUS_APPLIED, STATUS_IGNORED}
         => u \notin dispatched'

\* C11: in every run the tracker marks are applied before the pass and the
\* classification, so that a record marked applied or ignored in the tracker
\* at the start of the run is in none of its dispatched lists, and the tracker
\* file is written only after the state has been saved: when the run writes
\* the tracker, the persisted store is the store the tracker is written from.
C11_MarksBeforePassTrackerAfterSave ==
    [][/\ MarkedNotDispatched
       /\ RunWritesTracker => Persisted' = state]_vars

\* A run has sent a mail for one posting of its batch while the other posting
\* of the batch, marked in the tracker, was left out.
C11_Witness ==
    /\ pc = "saved"
    /\ mail_sent = "ok"
    /\ \E u \in seen_this_run \cap DOMAIN tracker_rows :
          /\ desired_status(tracker_rows[u]) = STATUS_IGNORED
          /\ u \notin dispatched
          /\ state[u].status = STATUS_IGNORED
          /\ state_file[u].status = STATUS_IGNORED

\* The first half of C11 on its own: no run dispatches a record that the rows
\* it loaded mark applied or ignored.
MarkedRecordsNeverDispatched == [][MarkedNotDispatched]_vars

\* A step of the program (a run or a command), as opposed to the user typing
\* into the tracker file.
UserTypes == UserEditsTracker \/ UserEntersNotes

ManualCellsCarried(col) ==
    \A u \in DOMAIN tracker_file :
       (tracker_file[u][col] # "" /\ u \in DOMAIN state_file /\ u \in DOMAIN state_file')
       => /\ u \in DOMAIN tracker_file'
          /\ tracker_file'[u][col] = tracker_file[u][col]

\* C12: whatever the program reads and writes, a non-empty notes or aktion
\* value of a row is carried unchanged into the next tracker file, for as
\* long as the UID's record exists in the state and whatever its status.
C12_ManualCellsKept ==
    [][UserTypes \/ (ManualCellsCarried("notes") /\ ManualCellsCarried("aktion"))]_vars

\* A note was entered for an open record, and a later run wrote its row.
C12_Witness ==
    /\ pc = "idle" /\ runs > 0
    /\ \E u \in DOMAIN tracker_file \cap DOMAIN state_file :
          /\ tracker_file[u].notes = "Call back"
          /\ state_file[u].status \in OPEN_STATUSES

\* The notes cell alone, for texts without outer blanks.
NotesKept == [][UserTypes \/ ManualCellsCarried("notes")]_vars
\* The token of a row's aktion cell, and what the row asks for, as the claim
\* words it.
ActionToken(row) == lower(strip(row.aktion))
HasActionToken(row) == ActionToken(row) \in APPLIED_ACTIONS \cup IGNORED_ACTIONS
DoneChecked(row) == _normalize_erledigt(row.erledigt) = CHECKBOX_DONE
AskedStatus(row) ==
    IF ActionToken(row) \in APPLIED_ACTIONS THEN STATUS_APPLIED
    ELSE IF ActionToken(row) \in IGNORED_ACTIONS THEN STATUS_IGNORED
    ELSE STATUS_APPLIED

MarksStep == pc \in {"idle", "marked"} /\ pc' \in {"marked", "marked_again"}

\* C13: apply_tracker_marks keeps the keys of the state; it changes only
\* status and applied_at, only of records whose UID has a row with a
\* recognized action token or a checked done marker, to the status the token
\* (before the marker) asks for; it returns the number of records whose
\* status changed; a second call with the same rows returns 0 and changes
\* nothing.
C13_MarksFrame ==
    [][MarksStep =>
        /\ DOMAIN state' = DOMAIN state
        /\ \A u \in DOMAIN state :
              /\ [state'[u] EXCEPT !.status = state[u].status,
                                   !.applied_at = state[u].applied_at] = state[u]
              /\ state'[u] # state[u] =>
                    /\ u \in DOMAIN tracker_rows
                    /\ HasActionToken(tracker_rows[u]) \/ DoneChecked(tracker_rows[u])
                    /\ state'[u].status = AskedStatus(tracker_rows[u])
        /\ tracker_updates' =
              Cardinality({u \in DOMAIN state : state'[u].status # state[u].status})
        /\ pc = "marked" => tracker_updates' = 0 /\ state' = state]_vars

\* The only record was marked by an action token that overrides its checked
\* done marker, and a marked row without a record was skipped.
C13_Witness ==
    /\ pc = "marked" /\ tracker_updates = 1
    /\ \E u \in DOMAIN tracker_rows \ DOMAIN state : DoneChecked(tracker_rows[u])
    /\ \E u \in DOMAIN state \cap DOMAIN tracker_rows :
          /\ DoneChecked(tracker_rows[u])
          /\ ActionToken(tracker_rows[u]) \in IGNORED_ACTIONS
          /\ state[u].status = STATUS_IGNORED
\* Every record of old that is still in new has the first_seen_at it had.
FirstSeenKept(old, new) ==
    \A u \in DOMAIN old \cap DOMAIN new : new[u].first_seen_at = old[u].first_seen_at

\* C14: once a record exists its first_seen_at never changes: not in the
\* state file under any run or command, not in the store a run loaded from
\* the file, and not in any step of the run on its in-memory store.
C14_FirstSeenNeverChanges ==
    [][/\ state_exists => FirstSeenKept(state_file, state_file')
       /\ (LoadStep /\ state_exists) => FirstSeenKept(state_file, state')
       /\ (pc # "idle" /\ pc' # "idle") => FirstSeenKept(state, state')]_vars

\* A record first seen at tick 0 was seen again by the last run at a later
\* tick, and is stored with both stamps.
C14_Witness ==
    /\ runs = MaxRuns /\ pc = "saved"
    /\ \E u \in seen_this_run \cap DOMAIN state_file :
          /\ state_file[u].first_seen_at = 0
          /\ state_file[u].last_seen_at > 0
\* Every record of old that is still in new has a last_seen_at that is not
\* earlier, and a changed one only where a pass had the UID in its batch.
LastSeenKept(old, new, batch) ==
    \A u \in DOMAIN old \cap DOMAIN new :
       /\ new[u].last_seen_at >= old[u].last_seen_at
       /\ new[u].last_seen_at # old[u].last_seen_at => u \in batch

\* C15: last_seen_at of a record never decreases and changes only in a pass
\* whose batch contains the UID: in the run's store only in the _merge_payload
\* step and only for the UIDs of the batch, in the state file only when that
\* run saves; no other run step and no command changes it.
C15_LastSeenOnlyByPass ==
    [][/\ state_exists =>
            LastSeenKept(state_file, state_file',
                         IF pc = "send" THEN seen_this_run ELSE {})
       /\ (LoadStep /\ state_exists) => LastSeenKept(state_file, state', {})
       /\ (pc # "idle" /\ pc' # "idle") =>
            LastSeenKept(state, state', IF PassStep THEN seen_this_run' ELSE {})]_vars

\* No run has started, and a stored record was last seen after it was first
\* seen.
C15_Witness ==
    /\ runs = 0 /\ state_exists
    /\ \E u \in DOMAIN state_file :
          state_file[u].last_seen_at > state_file[u].first_seen_at

\* The first half of C15 on its own: last_seen_at never decreases.
LastSeenNeverDecreases ==
    [][/\ state_exists =>
            \A u \in DOMAIN state_file \cap DOMAIN state_file' :
               state_file'[u].last_seen_at >= state_file[u].last_seen_at
       /\ (pc # "idle" /\ pc' # "idle") =>
            \A u \in DOMAIN state \cap DOMAIN state' :
               state'[u].last_seen_at >= state[u].last_seen_at]_vars
\* The whole 24-hour days from tick earlier to tick later: the largest d with
\* d days not longer than the time between them (negative when later is the
\* earlier one).
WholeDays(later, earlier) ==
    CHOOSE d \in -(MaxReminderTime + 1)..MaxReminderTime :
       /\ d * TicksPerDay <= later - earlier
       /\ (d + 1) * TicksPerDay > later - earlier

\* C16: should_send_reminder returns true exactly when daily reminders are
\* on, or last_sent_at is empty or unparsable, or reminder_days <= 0, or the
\* whole days from last_sent_at to now are at least reminder_days.
C16_ReminderDue ==
    result.outcome = "returned" =>
       result.value = (\/ call.daily_reminders
                       \/ call.last_sent_at \in {None, BadTs}
                       \/ call.reminder_days <= 0
                       \/ WholeDays(call.now_dt, call.last_sent_at)
                             >= call.reminder_days)

\* The call changes nothing but its return value.
ReminderCallChangesNoState == [][UNCHANGED <<storevars, lockvars, savevars>>]_vars

\* The call returned true for a window that had just elapsed, to the day.
C16_Witness ==
    /\ result.outcome = "returned" /\ result.value
    /\ ~call.daily_reminders
    /\ call.reminder_days = 2
    /\ call.last_sent_at = 0
    /\ call.now_dt = 2 * TicksPerDay
\* The step is the pass of a second run over the batch that the first run
\* added as new: the store holds exactly the batch, every record is still
\* new and was never sent, and the user did nothing in between.
SecondPassOverUnsentBatch ==
    /\ PassStep
    /\ runs = 2 /\ user_ops = 0
    /\ state_exists
    /\ DOMAIN state_file = seen_this_run'
    /\ \A u \in DOMAIN state_file :
          /\ state_file[u].status = STATUS_NEW
          /\ state_file[u].last_sent_at = None

\* C17: after a first run added the postings as new and nothing was sent, a
\* second run over the same batch has an empty New group and an empty
\* Reminder group.
C17_SecondRunGroupsEmpty ==
    [][SecondPassOverUnsentBatch => new_jobs' = {} /\ reminder_jobs' = {}]_vars

\* C17 (amended): in that second run the New group holds every posting of the
\* batch again, and the Reminder group is empty.
C17_SecondRunAllNewAgain ==
    [][SecondPassOverUnsentBatch =>
          new_jobs' = seen_this_run' /\ reminder_jobs' = {}]_vars

\* The second run classified the unsent batch of the first run, at a later
\* time than the postings were first seen.
C17_Witness ==
    /\ pc = "send" /\ runs = 2 /\ user_ops = 0
    /\ seen_this_run = UIDs
    /\ DOMAIN state_file = UIDs
    /\ \A u \in UIDs : /\ state_file[u].status = STATUS_NEW
                        /\ state_file[u].last_sent_at = None
                        /\ state[u].first_seen_at < stamp
    /\ new_jobs = UIDs /\ reminder_jobs = {}
\* C18: load_state never raises, whatever the two files hold: it returns the
\* empty mapping when the state file exists but cannot be read or parsed, and
\* the migrated records or the empty mapping when only seen_jobs.json exists.
C18_LoadStateNeverRaises ==
    result.outcome # "pending" =>
       /\ result.outcome = "returned"
       /\ call.primary.kind \in {"unreadable", "invalid_json"} => result.value = EmptyMap
       /\ (call.primary.kind = "absent" /\ call.seen.kind \in {"unreadable", "invalid_json"})
             => result.value = EmptyMap

\* load_state migrated a seen_jobs.json of two entries, a key and a job with a
\* link, into two records.
C18_Witness ==
    /\ result.outcome = "returned"
    /\ call.primary.kind = "absent" /\ call.seen.kind = "list"
    /\ Cardinality(DOMAIN result.value) = 2

\* The part of C18 that holds: an unreadable or unparsable file never makes
\* load_state raise, and gives the empty mapping.
LoadStateFailsSoftOnParseErrors ==
    (/\ result.outcome # "pending"
     /\ call.primary.kind \in {"unreadable", "invalid_json"}
          \/ (call.primary.kind = "absent"
              /\ call.seen.kind \in {"absent", "unreadable", "invalid_json"}))
    => result = Returned(EmptyMap)
\* The lock file the invocation found is stale, in the words of the claim.
FoundStale ==
    \/ ttl_min <= 0
    \/ call.found.started_at \in {None, BadTs}
    \/ lock_clock - call.found.started_at > ttl_min

\* C19: a lock file is stale exactly when ttl_min <= 0, or it has no
\* readable and parsable started_at, or it is more than ttl_min minutes old;
\* _acquire_run_lock returns False and leaves the file untouched when it
\* finds a lock that is not stale, and removes and replaces a stale one.
C19_StaleLockReplaced ==
    call.fn = "_acquire_run_lock" =>
       /\ call.found # NoFile =>
             (_lock_is_stale(call.found, ttl_min, lock_clock) <=> FoundStale)
       /\ (call.found # NoFile /\ ~FoundStale) =>
             /\ lock_file = call.found
             /\ inv_pc["p1"] \in {"start", "stale_check", "aborted"}
             /\ ~acquired["p1"]
       /\ inv_pc["p1"] = "aborted" => call.found # NoFile /\ ~FoundStale
       /\ inv_pc["p1"] = "running" =>
             /\ acquired["p1"]
             /\ lock_file = [owner |-> "p1", started_at |-> lock_clock,
                              payload |-> lock_clock]

\* The invocation found a lock two minutes old with a TTL of one minute and
\* holds its own lock now.
C19_Witness ==
    /\ call.fn = "_acquire_run_lock"
    /\ call.found # NoFile /\ call.found.started_at = 0
    /\ ttl_min = 1 /\ lock_clock = 2
    /\ inv_pc["p1"] = "running" /\ lock_file.owner = "p1"
\* The UIDs the two calls returned.
UidA == result.value.a.value.job_uid
UidB == result.value.b.value.job_uid

\* C20: with a link the UID depends only on the source and the canonical URL:
\* two jobs of one source whose links have the same path, and differ at most
\* in the letter case of scheme and host, the query string, the fragment and
\* a trailing slash, get the same UID whatever their other fields; links
\* with different paths (letter case included) get different UIDs.
C20_UidByCanonicalUrl ==
    (call.fn = "build_job_uid" /\ result.outcome = "returned") =>
       /\ call.a.path = call.b.path => UidA = UidB
       /\ call.a.path # call.b.path => UidA # UidB

\* The two links differ in everything but the path, the jobs in every other
\* field, and the UIDs are the same.
C20_Witness ==
    /\ call.fn = "build_job_uid" /\ result.outcome = "returned"
    /\ call.a.path = <<"/job">> /\ call.b.path = <<"/job">>
    /\ call.a.scheme_caps # call.b.scheme_caps
    /\ call.a.host_caps # call.b.host_caps
    /\ call.a.slash # call.b.slash
    /\ call.a.query # call.b.query
    /\ call.a.fragment # call.b.fragment
    /\ call.others
    /\ UidA = UidB

\* C20 for links with a path below the root, and for root links that agree
\* on the trailing slash.
UidByCanonicalUrlBelowRoot ==
    (call.fn = "build_job_uid" /\ result.outcome = "returned") =>
       /\ (call.a.path = call.b.path
            /\ (call.a.path # << >> \/ call.a.slash = call.b.slash)) => UidA = UidB
       /\ call.a.path # call.b.path => UidA # UidB
\* The source a job's UID is built with: the source without outer blanks,
\* "unknown" when that is empty.
SourceOfBasis(fields) ==
    IF strip_text(fields.source) = << >> THEN <<"unknown">> ELSE strip_text(fields.source)

\* The two jobs agree on source and on the normalized title, company and
\* location.
SameFallbackIdentity ==
    /\ SourceOfBasis(call.a) = SourceOfBasis(call.b)
    /\ _normalize_text(call.a.title) = _normalize_text(call.b.title)
    /\ _normalize_text(call.a.company) = _normalize_text(call.b.company)
    /\ _normalize_text(call.a.location) = _normalize_text(call.b.location)

PrefixMatches ==
    {uid \in DOMAIN call.state :
        /\ Len(call.job_uid) <= Len(uid)
        /\ \A i \in 1..Len(call.job_uid) : uid[i] = call.job_uid[i]}
UrlMatches ==
    {uid \in DOMAIN call.state :
        /\ strip_text(call.url) # << >>
        /\ \/ call.state[uid].link = strip_text(call.url)
           \/ \E own \in {call.state[uid].link, call.state[uid].canonical_url} \ {<< >>} :
                 canonicalize_url(own) = canonicalize_url(strip_text(call.url))}
ArgMatches == IF call.job_uid # << >> THEN PrefixMatches ELSE UrlMatches

\* C22: resolve_job_uid returns a UID only when exactly one record matches
\* the UID prefix (or, without a prefix, the URL by exact link or canonical
\* form), and then that record's UID; with no match or several it returns
\* None, and mark_job_status then changes no record and does not save.
C22_ResolvesUniqueMatchOnly ==
    (call.fn = "mark_job_status" /\ result.outcome = "returned") =>
       /\ Cardinality(ArgMatches) = 1 =>
             result.value.resolved = PyStr(CHOOSE uid \in ArgMatches : TRUE)
       /\ Cardinality(ArgMatches) # 1 =>
             /\ result.value.resolved = PyNone
             /\ result.value.state = call.state
             /\ ~result.value.saved

\* Two records match the URL by canonical form (one by its link in another
\* spelling): nothing was resolved, changed or saved.
C22_Witness ==
    /\ call.fn = "mark_job_status" /\ result.outcome = "returned"
    /\ call.job_uid = << >>
    /\ call.url = <<" ", "https", "://", "example.com", "/job", "/", " ">>
    /\ Cardinality(UrlMatches) = 2
    /\ \E uid \in UrlMatches : call.state[uid].canonical_url = << >>
    /\ result.value.resolved = PyNone
    /\ result.value.state = call.state /\ ~result.value.saved
\* The records of a returned list, and whether the list holds each once.
Listed(list) == {list[i] : i \in 1..Len(list)}
NoRepeats(list) == Cardinality(Listed(list)) = Len(list)
\* The seen records of the call with a status of the given set.
SeenWithStatus(statuses) ==
    {u \in call.seen_this_run \cap DOMAIN call.state : call.state[u].status \in statuses}
\* The list is in non-increasing order of numeric score.
ScoreDescending(list) ==
    \A i, j \in 1..Len(list) :
       i < j => score_value(call.state[list[i]].score) >= score_value(call.state[list[j]].score)

\* C23: _classify_jobs returns New = the seen records with status new,
\* Reminder = the seen records with status notified for which
\* should_send_reminder is true, Open = the seen records with status new or
\* notified; so no list holds an applied, ignored or closed record or one
\* outside seen_this_run, New and Reminder are disjoint, both are subsets of
\* Open, and each list is in non-increasing order of numeric score, a
\* non-numeric or missing score counting as 0.
C23_ClassifyGroups ==
    (call.fn = "_classify_jobs" /\ result.outcome = "returned") =>
       LET new == result.value.new_jobs
           reminder == result.value.reminder_jobs
           open == result.value.open_jobs IN
       /\ Listed(new) = SeenWithStatus({STATUS_NEW})
       /\ Listed(reminder) =
             {u \in SeenWithStatus({STATUS_NOTIFIED}) :
                 should_send_reminder(call.state[u].last_sent_at, call.now_dt,
                                      call.reminder_days, call.daily_reminders)}
       /\ Listed(open) = SeenWithStatus({STATUS_NEW, STATUS_NOTIFIED})
       /\ \A list \in {new, reminder, open} :
             /\ NoRepeats(list)
             /\ ScoreDescending(list)
             /\ \A u \in Listed(list) :
                   /\ u \in call.seen_this_run
                   /\ call.state[u].status \notin TERMINAL_STATUSES
       /\ Listed(new) \cap Listed(reminder) = {}
       /\ Listed(new) \cup Listed(reminder) \subseteq Listed(open)

\* Three open records were seen: the Open list holds them by descending
\* score with the unparsable score last, one is in New and one in Reminder.
C23_Witness ==
    /\ call.fn = "_classify_jobs" /\ result.outcome = "returned"
    /\ Len(result.value.open_jobs) = 3
    /\ score_value(call.state[result.value.open_jobs[1]].score) = 2
    /\ score_value(call.state[result.value.open_jobs[2]].score) = 1
    /\ call.state[result.value.open_jobs[3]].score = PyStr(<<"n/a">>)
    /\ Len(result.value.new_jobs) >= 1 /\ Len(result.value.reminder_jobs) >= 1
\* The two criteria of the absence step for the record of the call, without
\* and with the rule that a threshold of zero or less is switched off.
RunsReached == call.record.missing_runs + 1 >= call.close_missing_runs
DaysReached ==
    /\ call.record.last_seen_at \notin {None, BadTs}
    /\ WholeDays(call.now_dt, call.record.last_seen_at) >= call.close_not_seen_days
AbsenceStepOnOpenRecord ==
    /\ call.fn = "_merge_payload" /\ result.outcome = "returned"
    /\ call.record.status \in OPEN_STATUSES

\* C24 (as stated): an open record that is not in the batch is set to closed
\* exactly when its incremented missing_runs >= close_missing_runs or the
\* whole days between its last_seen_at and now >= close_not_seen_days; a
\* last_seen_at that cannot be parsed never triggers the days criterion.
C24_ClosedExactlyAtThreshold ==
    AbsenceStepOnOpenRecord =>
       /\ (result.value.status = STATUS_CLOSED) <=> (RunsReached \/ DaysReached)
       /\ result.value.status \in {STATUS_CLOSED, call.record.status}

\* C24 (amended): each threshold counts only when it is greater than zero; an
\* open record that is not in the batch is set to closed exactly when
\* close_missing_runs > 0 and its incremented missing_runs >=
\* close_missing_runs, or close_not_seen_days > 0 and the whole days between
\* its last_seen_at and now >= close_not_seen_days, each threshold acting
\* whatever the other is; a last_seen_at that cannot be parsed never triggers
\* the days criterion, and the status is left alone otherwise.
C24_ClosedAtPositiveThreshold ==
    AbsenceStepOnOpenRecord =>
       /\ (result.value.status = STATUS_CLOSED) <=>
             \/ call.close_missing_runs > 0 /\ RunsReached
             \/ call.close_not_seen_days > 0 /\ DaysReached
       /\ result.value.status \in {STATUS_CLOSED, call.record.status}
       /\ result.value.missing_runs = call.record.missing_runs + 1

\* The days threshold alone closed a record: it was last seen a whole day
\* ago, and the runs threshold is not reached.
C24_Witness ==
    /\ AbsenceStepOnOpenRecord
    /\ call.close_missing_runs = 2 /\ call.record.missing_runs = 0
    /\ call.close_not_seen_days = 1
    /\ call.now_dt - call.record.last_seen_at = TicksPerDay
    /\ result.value.status = STATUS_CLOSED
\* A step of the UI's /api/mark or of the CLI's mark-applied / mark-ignored.
MarkCommand == TrackerHandler_do_POST_mark \/ mark_job_status

\* The step changed the stored status of u from applied or ignored to open,
\* or from applied to ignored or back.
UserRemarked(u) ==
    /\ u \in DOMAIN Persisted /\ u \in DOMAIN state_file'
    /\ LET old == Persisted[u].status
           new == state_file'[u].status IN
       \/ old \in {STATUS_APPLIED, STATUS_IGNORED} /\ new \in OPEN_STATUSES
       \/ old = STATUS_APPLIED /\ new = STATUS_IGNORED
       \/ old = STATUS_IGNORED /\ new = STATUS_APPLIED

\* C25: a status the user sets through /api/mark or the CLI mark commands
\* persists: when the command changed a record from applied or ignored to
\* open, or from applied to ignored or back, the next apply_tracker_marks on
\* the tracker file that the command wrote does not change the record's
\* status.
C25_UserMarkSurvivesTracker ==
    [][\A u \in UserUIDs :
         (MarkCommand /\ UserRemarked(u)) =>
            apply_tracker_marks(state_file', load_tracker', now')[u].status
               = state_file'[u].status]_vars

\* Before any run, two commands have marked a record ignored and then
\* applied: it is stored as applied, and its tracker row still carries the
\* action the program wrote for the ignored mark.
C25_Witness ==
    /\ runs = 0 /\ user_ops = 2 /\ pc = "idle"
    /\ \E u \in UserUIDs \cap DOMAIN state_file \cap DOMAIN tracker_file :
          /\ state_file[u].status = STATUS_APPLIED
          /\ tracker_file[u].aktion = "ignored"
          /\ tracker_file[u].erledigt = CHECKBOX_DONE
\* The step ends a run into which a mark command fell.
RunEndsAfterMark ==
    /\ pc \in {"collect", "saved"} /\ pc' = "idle"
    /\ call.fn = "mark" /\ call.run = runs

\* C26: no user mark is lost to a concurrent run: a status written by
\* /api/mark or by mark_applied / mark_ignored while a run is between its
\* load_state and its final save_state and write_tracker is still the
\* record's status in the state file when the run has finished.
C26_MarkSurvivesConcurrentRun ==
    [][RunEndsAfterMark => state_file'[call.job_uid].status = call.status]_vars

\* A run has loaded the record as notified, the user has marked it applied
\* before the run merged its batch, and the run has saved its store.
C26_Witness ==
    /\ pc = "saved"
    /\ call.fn = "mark" /\ call.run = runs /\ call.status = STATUS_APPLIED
    /\ call.job_uid \in seen_this_run
    /\ state_file = state
\* C27: after a run whose send succeeded (not a dry run), no record whose UID
\* was in the run's fresh batch still has status new, in the run's store and
\* in the state file it saved, in the default mode (New and Reminder
\* dispatched) and in the send_open mode (Open dispatched).
C27_NoNewAfterSuccessfulSend ==
    (pc = "saved" /\ mail_sent = "ok") =>
       \A u \in seen_this_run :
          /\ state[u].status # STATUS_NEW
          /\ state_file[u].status # STATUS_NEW

\* A run in send_open mode has sent the Open list, which held a new record
\* and a notified one whose reminder was not due, and both are notified.
C27_Witness ==
    /\ pc = "saved" /\ mail_sent = "ok"
    /\ new_jobs # {}
    /\ open_jobs \ (new_jobs \cup reminder_jobs) # {}
    /\ dispatched = open_jobs
    /\ \A u \in open_jobs : state_file[u].status = STATUS_NOTIFIED
                              /\ state_file[u].last_sent_at = stamp
\* C28: after every Reconciler pass with close_missing_runs > 0, every record
\* with status new or notified has 0 <= missing_runs < close_missing_runs,
\* and every record whose UID was in the fresh batch has missing_runs = 0.
C28_MissingRunsBounded ==
    (pc = "send" /\ settings.close_missing_runs > 0) =>
       /\ \A u \in DOMAIN state :
             state[u].status \in OPEN_STATUSES =>
                /\ 0 <= state[u].missing_runs
                /\ state[u].missing_runs < settings.close_missing_runs
       /\ \A u \in seen_this_run : state[u].missing_runs = 0

\* With close_missing_runs = 2, a pass has counted an open record absent for
\* the first time and left it open, and has reset the count of the record in
\* its batch, which the pass before had counted absent.
C28_Witness ==
    /\ pc = "send" /\ settings.close_missing_runs = 2
    /\ \E u \in DOMAIN state \ seen_this_run :
          state[u].status \in OPEN_STATUSES /\ state[u].missing_runs = 1
    /\ \E u \in seen_this_run \cap DOMAIN state_file :
          state_file[u].missing_runs = 1 /\ state[u].missing_runs = 0
\* In a store, a new record has no last_sent_at and a notified one has one.
SentMatchesStatus(st) ==
    \A u \in DOMAIN st :
       /\ st[u].status = STATUS_NEW => st[u].last_sent_at = None
       /\ st[u].status = STATUS_NOTIFIED => st[u].last_sent_at # None

\* C29: in every state reachable from an empty or migrated store under
\* passes, sends, tracker marks, UI/CLI marks and the after-application
\* update, a record with status new has no last_sent_at and a record with
\* status notified has a last_sent_at: in the state file, in what load_state
\* returns, and in the store of a run.
C29_SentMatchesStatus ==
    /\ SentMatchesStatus(Persisted)
    /\ SentMatchesStatus(state)

\* A record that had been sent and then marked applied was reopened through
\* the UI as notified, and a record never sent is stored as new.
C29_Witness ==
    /\ pc = "idle" /\ user_ops = 2 /\ runs >= 1
    /\ \E u \in UserUIDs \cap DOMAIN state_file \cap DOMAIN tracker_file :
          /\ state_file[u].status = STATUS_NOTIFIED
          /\ state_file[u].last_sent_at # None
          /\ tracker_file[u].aktion = "applied"
    /\ \E u \in DOMAIN state_file :
          state_file[u].status = STATUS_NEW /\ state_file[u].last_sent_at = None
\* The step is the end of a run whose scrape returned no postings.
NoRowsStep == pc = "collect" /\ pc' = "idle"

\* From the store old to the store new no record was lost, counted absent,
\* refreshed, or closed other than as a record of an aggregator.
NotMovedTowardsClosure(old, new) ==
    \A u \in DOMAIN old :
       /\ u \in DOMAIN new
       /\ new[u].missing_runs = old[u].missing_runs
       /\ new[u].last_seen_at = old[u].last_seen_at
       /\ (new[u].status = STATUS_CLOSED /\ old[u].status # STATUS_CLOSED)
             => source_of[u] \in AGGREGATOR_SOURCES

\* C30: a run in which the scrape returns no postings performs no pass: from
\* its load to its end no record's missing_runs is incremented, no record is
\* closed for absence, last_seen_at is unchanged, in the run's store and in
\* the state file, and no mail is sent.
C30_NoRowsRunIsNoPass ==
    [][/\ LoadStep => NotMovedTowardsClosure(Persisted', state')
       /\ NoRowsStep =>
            /\ NotMovedTowardsClosure(Persisted, Persisted')
            /\ mail_sent = "none" /\ mail_sent' = "none"
            /\ dispatched' = {} /\ seen_this_run' = {}
            /\ UNCHANGED <<absent_runs, open_absent_runs, pending>>]_vars

\* The second run came a whole day after the first and found no postings:
\* the record that the first run had counted absent is still open with the
\* same count and the same last_seen_at, although close_not_seen_days = 1.
C30_Witness ==
    /\ pc = "idle" /\ runs = 2 /\ user_ops = 0
    /\ settings.close_not_seen_days = 1
    /\ now = TicksPerDay
    /\ \E u \in DOMAIN state_file :
          /\ state_file[u].status \in OPEN_STATUSES
          /\ state_file[u].missing_runs = 1
          /\ state_file[u].last_seen_at = 0
====
